---- MODULE Spec2Model ----
(***************************************************************************)
(* State-machine model of the drop-manager / team-lead Telegram bot        *)
(* (src/bot).  The persistent state is the database rows (users, shifts,   *)
(* forms, duplicate reports, pool items); the volatile state is the        *)
(* per-user aiogram FSM context (state tag + data dict) and the messages   *)
(* with inline buttons that outlive the step that sent them.               *)
(*                                                                         *)
(* One action models one update handler.  Handlers of one user run one     *)
(* after another (one conversation per user); a handler that returns       *)
(* early without touching any state is a stuttering step and appears as a  *)
(* guard.  The pool "take" handler is split at its awaits because its      *)
(* read-check-write of a shared row is the subject of the exclusivity      *)
(* property: every update gets its own ORM session (app.py:219), so what   *)
(* one session has read or changed is invisible to the other until the     *)
(* session is committed.                                                   *)
(***************************************************************************)
EXTENDS Integers, Sequences, FiniteSets, TLC

\* ------------------------------------------------------------------ bounds
MaxForms == 2
MaxShifts == 3
MaxCollected == 2
MaxPayItems == 2
MaxClock == 3
MaxReports == 1
MaxAlbum == 3
MaxClosers == 2

\* ------------------------------------------------------- program constants
\* drop_manager.py:5327  "if active_cnt >= 5"
MaxActive == 5
\* drop_manager.py:3277  "if len(collected) < 20"
ScreenCap == 20

\* pool items of the model: one more than a manager may hold
NItems == MaxActive + 1

\* ------------------------------------------------------------------ users
Managers == {"m1", "m2"}
TeamLeads == {"t1", "t2"}
\* providers of pool items (role WICTORY)
Providers == {"w1", "w2"}
Users == Managers \cup TeamLeads \cup Providers

\* models.py UserRole / FormStatus / ResourceStatus
UserRole == {"PENDING", "DROP_MANAGER", "TEAM_LEAD", "WICTORY"}
FormStatus == {"IN_PROGRESS", "PENDING", "APPROVED", "REJECTED"}
ResourceStatus == {"free", "assigned", "used", "invalid"}

\* ------------------------------------------------------------ input values
\* Phones as stored after normalize_phone; "" stands for None.
Phones == {"+380 991234567", "+380 501112233"}
NoPhone == ""

\* Bank names are character sequences so that the duplicate key can be
\* computed from the text the way the code does.  <<>> stands for None/"".
NoBank == <<>>
BankPb == <<"P", "b", "2">>
BankQ == <<"x", " ", "\"", "P", "B", "\"">>
BankAl == <<"A", "l", "-", "5">>
\* rows of the banks table, by id
Banks == <<BankPb, BankQ, BankAl>>
BankIds == 1..Len(Banks)
BankNames == {Banks[i] : i \in BankIds}

\* required_screens_<src> of a bank (None is 0: open-ended collection)
RequiredScreens(bank, src) ==
    IF bank = BankPb /\ src = "TG" THEN MaxCollected ELSE 0

\* ------------------------------------------------- _bank_duplicate_key
Upper == {"A", "B", "P", "X"}
Lower == {"a", "b", "l", "p", "x"}
ToLower(c) ==
    CASE c = "A" -> "a" [] c = "B" -> "b" [] c = "P" -> "p" [] c = "X" -> "x"
      [] OTHER -> c
IsAlpha(c) == c \in Upper \cup Lower
IsSpace(c) == c = " "
\* "<<" and ">>" stand for the two guillemet characters
OpenQuote(c) == c \in {"\"", "<<"}
CloseQuote(c) == c \in {"\"", ">>"}

LowerSeq(s) == [i \in 1..Len(s) |-> ToLower(s[i])]

RECURSIVE LStrip(_)
LStrip(s) == IF s # <<>> /\ IsSpace(Head(s)) THEN LStrip(Tail(s)) ELSE s

RECURSIVE RStrip(_)
RStrip(s) ==
    IF s # <<>> /\ IsSpace(s[Len(s)]) THEN RStrip(SubSeq(s, 1, Len(s) - 1)) ELSE s

Strip(s) == RStrip(LStrip(s))

\* re.sub(r"\s+", " ", s)
RECURSIVE CollapseWs(_)
CollapseWs(s) ==
    IF Len(s) < 2 THEN s
    ELSE IF IsSpace(s[1]) /\ IsSpace(s[2]) THEN CollapseWs(Tail(s))
    ELSE <<s[1]>> \o CollapseWs(Tail(s))

\* s.split(sep, 1)[0]
RECURSIVE BeforeFirst(_, _)
BeforeFirst(s, sep) ==
    IF s = <<>> \/ Head(s) = sep THEN <<>>
    ELSE <<Head(s)>> \o BeforeFirst(Tail(s), sep)

\* re.match(r"([A-Za-z...]+)", token)
RECURSIVE AlphaRun(_)
AlphaRun(s) ==
    IF s = <<>> \/ ~IsAlpha(Head(s)) THEN <<>>
    ELSE <<Head(s)>> \o AlphaRun(Tail(s))

\* re.search(r'["<<](.*?)[">>]', txt): leftmost opening quote that is
\* followed by a closing one, shortest content
QuoteStarts(s) ==
    {i \in 1..Len(s) : OpenQuote(s[i]) /\ \E j \in (i + 1)..Len(s) : CloseQuote(s[j])}
Least(S) == CHOOSE x \in S : \A y \in S : x <= y
QuotedCore(s) ==
    LET i == Least(QuoteStarts(s))
        j == Least({k \in (i + 1)..Len(s) : CloseQuote(s[k])})
    IN SubSeq(s, i + 1, j - 1)

bank_duplicate_key(bank_name) ==
    LET txt == Strip(bank_name)
    IN IF txt = <<>> THEN <<>>
       ELSE IF QuoteStarts(txt) # {}
            THEN LowerSeq(CollapseWs(Strip(QuotedCore(txt))))
       ELSE LET base == Strip(CollapseWs(BeforeFirst(txt, "-")))
                token == Strip(BeforeFirst(base, " "))
                run == AlphaRun(token)
            IN LowerSeq(IF run # <<>> THEN run ELSE token)

\* ---------------------------------------------------------------- state
VARIABLES
    role,          \* users.role
    source,        \* users.manager_source
    manager_tag,   \* users.manager_tag is set
    forward_group_id, \* users.forward_group_id is set
    shifts,        \* shifts table: sequence indexed by id
    forms,         \* forms table: sequence indexed by id
    reports,       \* duplicate_reports table
    banks,         \* bank_conditions table: the name of each row, by id
    access_requests, \* access_requests table: sequence indexed by id
    album,         \* per chat: _album_ack_tasks, _album_counts, recent _album_last_sent_ts,
                   \* and the handlers that run as tasks and wait for the database:
                   \* photo handlers for get_form, shift closers for their commit
    fsm,           \* per-user FSMContext: state tag and data dict
    chat,          \* messages with inline buttons left behind in a user's chat
    pool,          \* resource_pool table: committed rows
    take,          \* per-manager progress of dm_resource_take_type
    granted,       \* history: managers told that the item was issued to them
    clock,         \* logical time of datetime.utcnow() for payment stamps
    lastOp         \* history: the handler that ran last and its outcome

vars == <<role, source, manager_tag, forward_group_id, shifts, forms, reports, banks, access_requests, album, fsm, chat, pool, take, granted, clock, lastOp>>

\* the users table, the bank table, the access requests and the album
\* acknowledgements: what no handler of a manager's menu writes
userVars == <<role, source, manager_tag, forward_group_id, banks, access_requests, album>>
poolVars == <<pool, take, granted>>

\* shifts.dialogs_count is null, the key dialogs_count is absent
NoCount == 0 - 1

\* state.clear(): no state tag, empty data dict (0 and "" stand for absent keys)
EmptyFsm ==
    [state |-> "none", form_id |-> 0, expected |-> 0, collected |-> 0, my_form_id |-> 0,
     pay_form_id |-> 0, pay_traffic |-> "", pay_items |-> 0, controls |-> 0,
     resource_item_id |-> 0, invalid_item_id |-> 0, invalid_edit_mode |-> "",
     dialogs_count |-> NoCount, pay_phone_bonus |-> FALSE]

Op(name, user, form, result) == [op |-> name, user |-> user, form |-> form, result |-> result]
\* a handler whose outcome no property refers to
Step == Op("step", "", 0, "")

\* create_form (repositories.py:235-239): a fresh row with the column defaults
NewForm(manager, shift) ==
    [manager_id |-> manager, shift_id |-> shift, status |-> "IN_PROGRESS",
     traffic_type |-> "", direct_user |-> FALSE, referral_user |-> FALSE,
     phone |-> NoPhone, bank_name |-> NoBank, password |-> "", screenshots |-> 0,
     comment |-> "", team_lead_comment |-> "", payment_done_at |-> 0,
     deleted |-> FALSE]

FormIds == 1..Len(forms)
\* get_form (repositories.py:242-244)
get_form(f) == f \in FormIds /\ ~forms[f].deleted

\* get_bank_by_name (repositories.py:288-290): the id of the row, 0 for None
get_bank_by_name(name) ==
    IF \E i \in BankIds : banks[i] = name THEN CHOOSE i \in BankIds : banks[i] = name ELSE 0

\* get_active_shift (repositories.py:217-221)
ActiveShifts(m) == {s \in 1..Len(shifts) : shifts[s].manager_id = m /\ ~shifts[s].ended}
get_active_shift(m) == IF ActiveShifts(m) = {} THEN 0 ELSE Least(ActiveShifts(m))

\* find_forms_by_phone + _phone_bank_duplicate_exists_by_key
\* (repositories.py:525-527, drop_manager.py:160-176): ids of the live forms
\* with the same phone and the same bank key, the excluded form left out
DuplicatesOf(phone, bank_name, exclude) ==
    IF bank_duplicate_key(bank_name) = <<>> THEN {}
    ELSE {g \in FormIds : /\ ~forms[g].deleted
                          /\ g # exclude
                          /\ forms[g].phone = phone
                          /\ bank_duplicate_key(forms[g].bank_name) = bank_duplicate_key(bank_name)}

\* phone_bank_duplicate_exists (repositories.py:530-535): the newest form with
\* this phone and this very bank name, 0 for None; exclude 0 is None
phone_bank_duplicate_exists(phone, bank_name, exclude) ==
    LET hits == {g \in FormIds : /\ ~forms[g].deleted
                                 /\ forms[g].phone = phone
                                 /\ forms[g].bank_name = bank_name
                                 /\ g # exclude}
    IN IF hits = {} THEN 0 ELSE CHOOSE g \in hits : \A h \in hits : h <= g

\* _phone_bank_duplicate_exists_by_key (drop_manager.py:160-176): the first
\* form of find_forms_by_phone, newest first, that is not the excluded one
\* and has the key of the bank name
phone_bank_duplicate_exists_by_key_mut(phone, bank_name, exclude) ==
    LET hits == DuplicatesOf(phone, bank_name, 0)
    IN IF hits = {} THEN 0 ELSE CHOOSE g \in hits : \A h \in hits : h <= g

phone_bank_duplicate_exists_by_key(phone, bank_name, exclude) ==
    LET hits == DuplicatesOf(phone, bank_name, exclude)
    IN IF hits = {} THEN 0 ELSE CHOOSE g \in hits : \A h \in hits : h <= g

\* create_resource_pool_item (repositories.py:585-605): the rows the
\* providers have added, one eSIM and the links, "v0" the data entered
NewItem(i) ==
    [status |-> "free", assigned_to |-> "", type |-> IF i = 1 THEN "esim" ELSE "link",
     created_by |-> IF i <= 2 THEN "w1" ELSE "w2", text_data |-> "v0",
     invalid_comment |-> "", used_with_form_id |-> 0]

\* The users table after the developer has handled the access requests:
\* two FB managers, or one manager (TG or FB) with two team leads.
UserConfigs ==
    { [role |-> [u \in Users |-> IF u \in Managers THEN "DROP_MANAGER"
                                 ELSE IF u \in Providers THEN "WICTORY" ELSE "PENDING"],
       source |-> [m \in Managers |-> "FB"]] }
    \cup
    { [role |-> [u \in Users |-> IF u = "m1" THEN "DROP_MANAGER"
                                 ELSE IF u \in TeamLeads THEN "TEAM_LEAD"
                                 ELSE IF u \in Providers THEN "WICTORY" ELSE "PENDING"],
       source |-> [m \in Managers |-> IF m = "m1" THEN src ELSE "FB"]] : src \in {"TG", "FB"} }

\* media_group_id values of the albums a manager sends
Groups == {"g1", "g2"}
\* the three module-level dicts are empty and no handler is waiting
NoAlbum ==
    [tasks |-> {}, ack |-> [g \in Groups |-> 0], counts |-> [g \in Groups |-> 0],
     recent |-> {}, saving |-> {}, closing |-> {}]

\* Every user who has a role went through /start and the developer's
\* decision (common.py:104-106, developer.py:1403-1409); a user who has not
\* sent /start yet has no row.
ProcessedRequests ==
    SelectSeq(<<[user_id |-> "m1", status |-> "APPROVED"], [user_id |-> "m2", status |-> "APPROVED"],
                [user_id |-> "w1", status |-> "APPROVED"], [user_id |-> "w2", status |-> "APPROVED"]>>,
              LAMBDA r : role[r.user_id] \in {"DROP_MANAGER", "WICTORY"})

Init ==
    /\ \E c \in UserConfigs : role = c.role /\ source = c.source
    /\ access_requests = ProcessedRequests
    /\ album = [m \in Managers |-> NoAlbum]
    /\ manager_tag = [m \in Managers |-> TRUE]
    /\ forward_group_id = [m \in Managers |-> TRUE]
    /\ shifts = <<>>
    /\ forms = <<>>
    /\ reports = {}
    /\ banks = Banks
    /\ fsm = [u \in Users |-> EmptyFsm]
    /\ chat = [u \in Users |-> {}]
    /\ pool = [i \in 1..NItems |-> NewItem(i)]
    /\ take = [m \in Managers |-> [pc |-> "idle", item |-> 0]]
    /\ granted = [i \in 1..NItems |-> {}]
    /\ clock = 0
    /\ lastOp = Op("init", "", 0, "")

\* ===================================================== resource pool
\* count_dm_active_pool_items (repositories.py:648-655)
count_dm_active_pool_items(m) ==
    Cardinality({i \in 1..NItems : pool[i].status = "assigned" /\ pool[i].assigned_to = m})

\* list_free_pool_items_for_bank (repositories.py:672-682), ids ascending;
\* every item of the model belongs to one bank and to source FB
list_free_pool_items_for_bank(src) ==
    {i \in 1..NItems : pool[i].status = "free" /\ src = "FB"}

\* dm_resource_take_type up to the call of assign_pool_item_to_dm
\* (drop_manager.py:5306-5333): role check, capacity check, pick the first
\* free item of the requested type
dm_resource_take_type_mut(m, rtype) ==
    /\ role[m] = "DROP_MANAGER"
    /\ take[m].pc = "idle"
    /\ IF count_dm_active_pool_items(m) > MaxActive
       THEN /\ lastOp' = Op("take", m, 0, "slots_full")
            /\ UNCHANGED <<pool, take, granted>>
       ELSE LET free == {i \in list_free_pool_items_for_bank(source[m]) : pool[i].type = rtype}
            IN /\ free # {}
               /\ take' = [take EXCEPT ![m] = [pc |-> "picked", item |-> Least(free)]]
               /\ lastOp' = Op("take", m, 0, "picked")
               /\ UNCHANGED <<pool, granted>>
    /\ UNCHANGED <<userVars, shifts, forms, reports, fsm, chat, clock>>

dm_resource_take_type(m, rtype) ==
    /\ role[m] = "DROP_MANAGER"
    /\ take[m].pc = "idle"
    /\ IF count_dm_active_pool_items(m) >= MaxActive
       THEN /\ lastOp' = Op("take", m, 0, "slots_full")
            /\ UNCHANGED <<pool, take, granted>>
       ELSE LET free == {i \in list_free_pool_items_for_bank(source[m]) : pool[i].type = rtype}
            IN /\ free # {}
               /\ take' = [take EXCEPT ![m] = [pc |-> "picked", item |-> Least(free)]]
               /\ lastOp' = Op("take", m, 0, "picked")
               /\ UNCHANGED <<pool, granted>>
    /\ UNCHANGED <<userVars, shifts, forms, reports, fsm, chat, clock>>

\* assign_pool_item_to_dm (repositories.py:685-692) inside the handler's
\* session.  The row was loaded by this session when the free items were
\* listed; the status the check sees is that loaded value ("free") or, if
\* the ORM refreshes the row, the value committed meanwhile.  The new
\* status and assignee are set on the session's object only.
assign_pool_item_to_dm(m) ==
    /\ take[m].pc = "picked"
    /\ \E seen \in {"free", pool[take[m].item].status} :
         IF seen # "free"
         THEN /\ take' = [take EXCEPT ![m] = [pc |-> "idle", item |-> 0]]
              /\ lastOp' = Op("take", m, 0, "already_taken")
         ELSE /\ take' = [take EXCEPT ![m].pc = "assigned"]
              /\ lastOp' = Op("take", m, 0, "assigned_in_session")
    /\ UNCHANGED <<userVars, shifts, forms, reports, fsm, chat, pool, granted, clock>>

\* End of the update: the session middleware registered in app.py:219
\* commits; the pending change is written as an UPDATE of the row by id,
\* whatever the row holds by then.  The manager has been shown the item.
take_commit_mut(m) ==
    /\ take[m].pc = "assigned"
    /\ pool' = [pool EXCEPT ![take[m].item].status = "assigned"]
    /\ granted' = [granted EXCEPT ![take[m].item] = @ \cup {m}]
    /\ take' = [take EXCEPT ![m] = [pc |-> "idle", item |-> 0]]
    /\ lastOp' = Op("take", m, 0, "issued")
    /\ UNCHANGED <<userVars, shifts, forms, reports, fsm, chat, clock>>

take_commit(m) ==
    /\ take[m].pc = "assigned"
    /\ pool' = [pool EXCEPT ![take[m].item].status = "assigned",
                            ![take[m].item].assigned_to = m]
    /\ granted' = [granted EXCEPT ![take[m].item] = @ \cup {m}]
    /\ take' = [take EXCEPT ![m] = [pc |-> "idle", item |-> 0]]
    /\ lastOp' = Op("take", m, 0, "issued")
    /\ UNCHANGED <<userVars, shifts, forms, reports, fsm, chat, clock>>

\* The test release_pool_item, mark_pool_item_invalid and
\* mark_pool_item_used_with_form share (repositories.py:697, 707, 718):
\* the row exists, is Assigned and its assignee is the caller
held_by_mut(m, i) ==
    /\ i \in 1..NItems
    /\ pool[i].status = "assigned"

held_by(m, i) ==
    /\ i \in 1..NItems
    /\ pool[i].status = "assigned"
    /\ pool[i].assigned_to = m

\* dm_resource_release + release_pool_item
\* (drop_manager.py:5395-5406, repositories.py:695-702)
dm_resource_release(m, i) ==
    /\ role[m] = "DROP_MANAGER"
    /\ take[m].pc = "idle"
    /\ IF held_by(m, i)
       THEN /\ pool' = [pool EXCEPT ![i].status = "free", ![i].assigned_to = ""]
            /\ granted' = [granted EXCEPT ![i] = {}]
            /\ lastOp' = Op("release", m, 0, "ok")
       ELSE /\ lastOp' = Op("release", m, 0, "refused")
            /\ UNCHANGED <<pool, granted>>
    /\ UNCHANGED <<userVars, shifts, forms, reports, fsm, chat, take, clock>>

NextPool ==
    \/ \E m \in Managers, rtype \in {"link", "esim"} : dm_resource_take_type(m, rtype)
    \/ \E m \in Managers : assign_pool_item_to_dm(m)
    \/ \E m \in Managers : take_commit(m)
    \/ \E m \in Managers, i \in 1..NItems : dm_resource_release(m, i)

SpecPool == Init /\ [][NextPool]_vars

\* C1: two managers who concurrently take the same Free item: exactly one
\* is issued the item and the other is told it is already taken, so an item
\* is never issued to two managers during one assignment.
C1_ExclusiveAssignment ==
    \A i \in 1..NItems : Cardinality(granted[i]) <= 1

dm_resource_invalid_start(m, i) ==
    /\ role[m] = "DROP_MANAGER"
    /\ take[m].pc = "idle"
    /\ fsm' = [fsm EXCEPT ![m].state = "invalid_comment", ![m].resource_item_id = i]
    /\ lastOp' = Step
    /\ UNCHANGED <<userVars, shifts, forms, reports, chat, poolVars, clock>>

\* dm_resource_invalid_comment + mark_pool_item_invalid
\* (drop_manager.py:5423-5448, repositories.py:705-713)
dm_resource_invalid_comment(m) ==
    LET i == fsm[m].resource_item_id IN
    /\ fsm[m].state = "invalid_comment"
    /\ role[m] = "DROP_MANAGER"
    /\ take[m].pc = "idle"
    /\ IF held_by(m, i)
       THEN /\ pool' = [pool EXCEPT ![i].invalid_comment = "broken", ![i].status = "invalid",
                                    ![i].assigned_to = ""]
            /\ granted' = [granted EXCEPT ![i] = {}]
            /\ lastOp' = Op("mark_invalid", m, 0, "ok")
       ELSE /\ lastOp' = Op("mark_invalid", m, 0, "refused")
            /\ UNCHANGED <<pool, granted>>
    /\ fsm' = [fsm EXCEPT ![m] = EmptyFsm]
    /\ UNCHANGED <<userVars, shifts, forms, reports, chat, take, clock>>

\* dm_resource_attach_pick + mark_pool_item_used_with_form
\* (drop_manager.py:5473-5505, repositories.py:716-724): item and form ids
\* come from the button; the form is read only for the notification text
dm_resource_attach_pick(m, i, f) ==
    /\ role[m] = "DROP_MANAGER"
    /\ take[m].pc = "idle"
    /\ IF held_by(m, i)
       THEN /\ pool' = [pool EXCEPT ![i].status = "used", ![i].used_with_form_id = f,
                                    ![i].assigned_to = ""]
            /\ granted' = [granted EXCEPT ![i] = {}]
            /\ lastOp' = Op("mark_used", m, 0, "ok")
       ELSE /\ lastOp' = Op("mark_used", m, 0, "refused")
            /\ UNCHANGED <<pool, granted>>
    /\ UNCHANGED <<userVars, shifts, forms, reports, fsm, chat, take, clock>>

\* _wictory_guard (wictory.py:49-56)
wictory_guard(w) == role[w] = "WICTORY"

\* The test of wictory_update_invalid_item and wictory_invalid_open
\* (repositories.py:746, wictory.py:290): the row exists, was created by the
\* caller and is Invalid
editable_by_mut(w, i) ==
    /\ i \in 1..NItems
    /\ pool[i].status = "invalid"

editable_by(w, i) ==
    /\ i \in 1..NItems
    /\ pool[i].created_by = w
    /\ pool[i].status = "invalid"

\* wictory_invalid_open (wictory.py:283-304)
wictory_invalid_open(w, i) ==
    /\ wictory_guard(w)
    /\ IF editable_by(w, i)
       THEN /\ fsm' = [fsm EXCEPT ![w].invalid_item_id = i]
            /\ lastOp' = Op("invalid_open", w, 0, "ok")
       ELSE /\ lastOp' = Op("invalid_open", w, 0, "refused")
            /\ UNCHANGED fsm
    /\ UNCHANGED <<userVars, shifts, forms, reports, chat, poolVars, clock>>

\* wictory_invalid_edit_data_start (wictory.py:307-317)
wictory_invalid_edit_data_start(w, i) ==
    /\ wictory_guard(w)
    /\ fsm' = [fsm EXCEPT ![w].state = "enter_data", ![w].invalid_item_id = i,
                          ![w].invalid_edit_mode = "data"]
    /\ lastOp' = Step
    /\ UNCHANGED <<userVars, shifts, forms, reports, chat, poolVars, clock>>

\* wictory_enter_data (wictory.py:158-178) in edit mode, with
\* wictory_update_invalid_item(text_data=...) (repositories.py:736-755)
wictory_enter_data(w) ==
    LET i == fsm[w].invalid_item_id IN
    /\ fsm[w].state = "enter_data"
    /\ wictory_guard(w)
    /\ fsm[w].invalid_edit_mode = "data"
    /\ i # 0
    /\ IF editable_by(w, i)
       THEN /\ pool' = [pool EXCEPT ![i].text_data = "v1"]
            /\ lastOp' = Op("invalid_edit", w, 0, "ok")
       ELSE /\ lastOp' = Op("invalid_edit", w, 0, "refused")
            /\ UNCHANGED pool
    /\ fsm' = [fsm EXCEPT ![w] = EmptyFsm]
    /\ UNCHANGED <<userVars, shifts, forms, reports, chat, take, granted, clock>>

\* wictory_invalid_return (wictory.py:333-342) with
\* wictory_update_invalid_item(set_free=True)
wictory_invalid_return(w, i) ==
    /\ wictory_guard(w)
    /\ IF editable_by(w, i)
       THEN /\ pool' = [pool EXCEPT ![i].status = "free", ![i].invalid_comment = ""]
            /\ lastOp' = Op("set_free", w, 0, "ok")
       ELSE /\ lastOp' = Op("set_free", w, 0, "refused")
            /\ UNCHANGED pool
    /\ UNCHANGED <<userVars, shifts, forms, reports, fsm, chat, take, granted, clock>>

\* The buttons pressed in the life of an item carry the ids of the first
\* third of the items; the managers ask for eSIMs.
Shelf == 1..(NItems \div 3)

NextLife ==
    \/ \E m \in Managers : dm_resource_take_type(m, "esim")
    \/ \E m \in Managers : assign_pool_item_to_dm(m)
    \/ \E m \in Managers : take_commit(m)
    \/ \E m \in Managers, i \in Shelf : dm_resource_release(m, i)
    \/ \E m \in Managers, i \in Shelf : dm_resource_invalid_start(m, i)
    \/ \E m \in Managers : dm_resource_invalid_comment(m)
    \/ \E m \in Managers, i \in Shelf, f \in 1..MaxForms : dm_resource_attach_pick(m, i, f)
    \/ \E w \in Providers, i \in Shelf : wictory_invalid_open(w, i)
    \/ \E w \in Providers, i \in Shelf : wictory_invalid_edit_data_start(w, i)
    \/ \E w \in Providers : wictory_enter_data(w)
    \/ \E w \in Providers, i \in Shelf : wictory_invalid_return(w, i)

SpecLife == Init /\ [][NextLife]_vars

\* C11: release, mark-invalid and mark-used succeed only when the item is
\* Assigned and the caller is its current assignee; otherwise the operation
\* fails and the item's status, assignee, invalid comment and form reference
\* are unchanged.
C11_HolderOnly ==
    [][lastOp'.op \in {"release", "mark_invalid", "mark_used"} =>
         IF lastOp'.result = "ok"
         THEN \E i \in 1..NItems :
                /\ pool[i].status = "assigned"
                /\ pool[i].assigned_to = lastOp'.user
                /\ pool'[i].status # "assigned"
                /\ \A j \in 1..NItems \ {i} : pool'[j] = pool[j]
         ELSE pool' = pool]_vars

\* a manager who is not the assignee has tried to release an Assigned item
C11_Witness ==
    /\ lastOp.op = "release"
    /\ lastOp.result = "refused"
    /\ \E i \in Shelf : pool[i].status = "assigned" /\ pool[i].assigned_to # lastOp.user

\* C12: every status change of a pool item is Free->Assigned,
\* Assigned->Free, Assigned->Used, Assigned->Invalid or Invalid->Free; a
\* Used item never changes status again.
StatusMoves ==
    {<<"free", "assigned">>, <<"assigned", "free">>, <<"assigned", "used">>,
     <<"assigned", "invalid">>, <<"invalid", "free">>}

C12_StatusMoves ==
    [][\A i \in 1..NItems :
         pool'[i].status # pool[i].status => <<pool[i].status, pool'[i].status>> \in StatusMoves]_vars

\* C13: an Invalid item is edited or set Free only by the user who created
\* it; a set-free by anyone else, or on an item that is not Invalid, changes
\* nothing; a successful set-free leaves the item Free with no invalid
\* comment.
C13_CreatorOnly ==
    [][lastOp'.op \in {"set_free", "invalid_edit"} =>
         IF lastOp'.result = "ok"
         THEN \E i \in 1..NItems :
                /\ pool[i].status = "invalid"
                /\ pool[i].created_by = lastOp'.user
                /\ \A j \in 1..NItems \ {i} : pool'[j] = pool[j]
                /\ lastOp'.op = "set_free" =>
                      pool'[i].status = "free" /\ pool'[i].invalid_comment = ""
                /\ lastOp'.op = "invalid_edit" => pool'[i].status = "invalid"
         ELSE pool' = pool]_vars

\* a provider who did not create the Invalid item has tried to set it Free
C13_Witness ==
    /\ lastOp.op = "set_free"
    /\ lastOp.result = "refused"
    /\ \E i \in Shelf : pool[i].status = "invalid" /\ pool[i].created_by # lastOp.user

\* ===================================================== shift lifecycle
\* start_shift (repositories.py:224-228): unconditional insert.  The field
\* asked is history: how far the closing dialogue of the shift has come.
start_shift(m) ==
    shifts' = Append(shifts, [manager_id |-> m, ended |-> FALSE, dialogs_count |-> NoCount,
                              asked |-> "nothing"])

\* dm_start_shift_cb (drop_manager.py:1941-1987)
dm_start_shift_cb_mut(m) ==
    /\ role[m] = "DROP_MANAGER"
    /\ forward_group_id[m]
    /\ manager_tag[m]
    /\ Len(shifts) < MaxShifts
    /\ start_shift(m)
    /\ lastOp' = Op("start_shift", m, 0, "started")
    /\ UNCHANGED <<userVars, forms, reports, fsm, chat, poolVars, clock>>

dm_start_shift_cb(m) ==
    /\ role[m] = "DROP_MANAGER"
    /\ IF ~forward_group_id[m]
       THEN /\ lastOp' = Op("start_shift", m, 0, "no_group")
            /\ UNCHANGED shifts
       ELSE IF ~manager_tag[m]
       THEN /\ lastOp' = Op("start_shift", m, 0, "no_tag")
            /\ UNCHANGED shifts
       ELSE IF get_active_shift(m) # 0
       THEN /\ lastOp' = Op("start_shift", m, 0, "already_active")
            /\ UNCHANGED shifts
       ELSE /\ Len(shifts) < MaxShifts
            /\ start_shift(m)
            /\ lastOp' = Op("start_shift", m, 0, "started")
    /\ UNCHANGED <<userVars, forms, reports, fsm, chat, poolVars, clock>>

\* start_work (drop_manager.py:1263-1290): the text-button twin of
\* dm_start_shift_cb
start_work_mut(m) ==
    /\ role[m] = "DROP_MANAGER"
    /\ IF ~manager_tag[m]
       THEN /\ lastOp' = Op("start_work", m, 0, "no_tag")
            /\ UNCHANGED shifts
       ELSE IF get_active_shift(m) # 0
       THEN /\ lastOp' = Op("start_work", m, 0, "already_active")
            /\ UNCHANGED shifts
       ELSE /\ Len(shifts) < MaxShifts
            /\ start_shift(m)
            /\ lastOp' = Op("start_work", m, 0, "started")
    /\ UNCHANGED <<userVars, forms, reports, fsm, chat, poolVars, clock>>

start_work(m) ==
    /\ role[m] = "DROP_MANAGER"
    /\ IF ~forward_group_id[m]
       THEN /\ lastOp' = Op("start_work", m, 0, "no_group")
            /\ UNCHANGED shifts
       ELSE IF ~manager_tag[m]
       THEN /\ lastOp' = Op("start_work", m, 0, "no_tag")
            /\ UNCHANGED shifts
       ELSE IF get_active_shift(m) # 0
       THEN /\ lastOp' = Op("start_work", m, 0, "already_active")
            /\ UNCHANGED shifts
       ELSE /\ Len(shifts) < MaxShifts
            /\ start_shift(m)
            /\ lastOp' = Op("start_work", m, 0, "started")
    /\ UNCHANGED <<userVars, forms, reports, fsm, chat, poolVars, clock>>

\* end_work_confirm (drop_manager.py:2049-2072): the shift named by the
\* button must be the manager's own and still open
end_work_confirm_mut(m, s) ==
    /\ role[m] = "DROP_MANAGER"
    /\ s \in 1..Len(shifts)
    /\ shifts[s].manager_id = m
    /\ ~shifts[s].ended
    /\ fsm' = [fsm EXCEPT ![m].state = "comment_of_day"]
    /\ shifts' = [shifts EXCEPT ![s].asked = IF @ = "nothing" THEN "confirmed" ELSE @]
    /\ lastOp' = Op("end_work_confirm", m, 0, "ok")
    /\ UNCHANGED <<userVars, forms, reports, chat, poolVars, clock>>

end_work_confirm(m, s) ==
    /\ role[m] = "DROP_MANAGER"
    /\ s \in 1..Len(shifts)
    /\ shifts[s].manager_id = m
    /\ ~shifts[s].ended
    /\ fsm' = [fsm EXCEPT ![m].state = "dialogs_count"]
    /\ shifts' = [shifts EXCEPT ![s].asked = IF @ = "nothing" THEN "confirmed" ELSE @]
    /\ lastOp' = Op("end_work_confirm", m, 0, "ok")
    /\ UNCHANGED <<userVars, forms, reports, chat, poolVars, clock>>

\* str.isdigit() on a text of the model's alphabet, and int() of it
Digits == <<"0", "1", "2", "3", "4", "5", "6", "7", "8", "9">>
IsDigit(c) == \E i \in 1..Len(Digits) : Digits[i] = c
isdigit(raw) == raw # <<>> /\ \A i \in 1..Len(raw) : IsDigit(raw[i])
RECURSIVE int(_)
int(raw) ==
    IF raw = <<>> THEN 0
    ELSE int(SubSeq(raw, 1, Len(raw) - 1)) * Len(Digits)
         + (CHOOSE i \in 1..Len(Digits) : Digits[i] = raw[Len(raw)]) - 1

\* .replace(" ", "")
RECURSIVE NoSpaces(_)
NoSpaces(t) ==
    IF t = <<>> THEN <<>>
    ELSE IF IsSpace(Head(t)) THEN NoSpaces(Tail(t))
    ELSE <<Head(t)>> \o NoSpaces(Tail(t))

\* texts a manager sends as the number of dialogs
CountTexts == {<<"1", " ", "2">>, <<"-", "3">>, <<"x">>}

\* the comment prompt with its skip button for shift s
\* (kb_dm_shift_comment_inline, keyboards.py:533-538)
SkipButton(s) == <<"shift_comment_skip", s>>

\* dm_shift_dialogs_count_message (drop_manager.py:2221-2246)
dm_shift_dialogs_count_message(m, text) ==
    LET raw == NoSpaces(Strip(text))
        shift == get_active_shift(m)
    IN
    /\ role[m] = "DROP_MANAGER"
    /\ fsm[m].state = "dialogs_count"
    /\ IF shift = 0
       THEN /\ fsm' = [fsm EXCEPT ![m] = EmptyFsm]
            /\ lastOp' = Op("dialogs_count", m, 0, "no_shift")
            /\ UNCHANGED <<shifts, chat>>
       ELSE IF ~isdigit(raw)
       THEN /\ lastOp' = Op("dialogs_count", m, 0, "not_a_number")
            /\ UNCHANGED <<shifts, fsm, chat>>
       ELSE /\ fsm' = [fsm EXCEPT ![m].state = "comment_of_day", ![m].dialogs_count = int(raw)]
            /\ shifts' = [shifts EXCEPT ![shift].asked = "counted"]
            /\ chat' = [chat EXCEPT ![m] = @ \cup {SkipButton(shift)}]
            /\ lastOp' = Op("dialogs_count", m, 0, "ok")
    /\ UNCHANGED <<userVars, forms, reports, poolVars, clock>>

\* _finalize_shift_with_comment (drop_manager.py:2075-2152) with the
\* clean-up of the chat that follows it
finalize_shift_with_comment(m, s) ==
    /\ shifts' = [shifts EXCEPT ![s].ended = TRUE, ![s].dialogs_count = fsm[m].dialogs_count]
    /\ chat' = [chat EXCEPT ![m] = @ \ {SkipButton(x) : x \in 1..MaxShifts}]

\* _maybe_send_team_total_report (drop_manager.py:247-329), called after
\* shift s of manager m has been closed: TRUE when the report is handed to
\* the team leads of the source.  It is when no shift of a drop-manager of
\* that source is left open and the source has forms of the day (every form
\* of the model is of the day); a missing source counts as TG.
maybe_send_team_total_report_mut(m, s) ==
    LET src(u) == IF source[u] = "" THEN "TG" ELSE source[u]
    IN {f \in FormIds : /\ ~forms[f].deleted
                         /\ role[forms[f].manager_id] = "DROP_MANAGER"
                         /\ src(forms[f].manager_id) = src(m)} # {}

maybe_send_team_total_report(m, s) ==
    LET src(u) == IF source[u] = "" THEN "TG" ELSE source[u]
    IN /\ {x \in 1..Len(shifts) : /\ x # s
                                   /\ ~shifts[x].ended
                                   /\ role[shifts[x].manager_id] = "DROP_MANAGER"
                                   /\ src(shifts[x].manager_id) = src(m)} = {}
       /\ {f \in FormIds : /\ ~forms[f].deleted
                            /\ role[forms[f].manager_id] = "DROP_MANAGER"
                            /\ src(forms[f].manager_id) = src(m)} # {}

\* dm_shift_comment_message (drop_manager.py:2249-2285): closes the active
\* shift
dm_shift_comment_message(m) ==
    /\ role[m] = "DROP_MANAGER"
    /\ fsm[m].state = "comment_of_day"
    /\ IF get_active_shift(m) = 0
       THEN /\ lastOp' = Op("shift_comment", m, 0, "no_shift")
            /\ UNCHANGED <<shifts, chat>>
       ELSE /\ finalize_shift_with_comment(m, get_active_shift(m))
            /\ lastOp' = Op("shift_comment", m, 0,
                            IF maybe_send_team_total_report(m, get_active_shift(m))
                            THEN "closed_team_report" ELSE "closed")
    /\ fsm' = [fsm EXCEPT ![m] = EmptyFsm]
    /\ UNCHANGED <<userVars, forms, reports, poolVars, clock>>

\* dm_shift_comment_skip (drop_manager.py:2155-2195): the press is on the
\* skip button of the comment prompt of shift s
dm_shift_comment_skip(m, s) ==
    /\ SkipButton(s) \in chat[m]
    /\ role[m] = "DROP_MANAGER"
    /\ IF s \in 1..Len(shifts) /\ shifts[s].manager_id = m /\ ~shifts[s].ended
       THEN /\ finalize_shift_with_comment(m, s)
            /\ fsm' = [fsm EXCEPT ![m] = EmptyFsm]
            /\ lastOp' = Op("shift_skip", m, 0,
                            IF maybe_send_team_total_report(m, s)
                            THEN "closed_team_report" ELSE "closed")
       ELSE /\ lastOp' = Op("shift_skip", m, 0, "not_found")
            /\ UNCHANGED <<shifts, fsm, chat>>
    /\ UNCHANGED <<userVars, forms, reports, poolVars, clock>>

NextShift ==
    \/ \E m \in Managers : dm_start_shift_cb(m)
    \/ \E m \in Managers : start_work(m)
    \/ \E m \in Managers, s \in 1..MaxShifts : end_work_confirm(m, s)
    \/ \E m \in Managers, text \in CountTexts : dm_shift_dialogs_count_message(m, text)
    \/ \E m \in Managers : dm_shift_comment_message(m)
    \/ \E m \in Managers, s \in 1..MaxShifts : dm_shift_comment_skip(m, s)

SpecShift == Init /\ [][NextShift]_vars

C17_CloseAfterCount ==
    [][\A s \in 1..Len(shifts) :
         /\ (~shifts[s].ended /\ shifts'[s].ended) =>
               /\ shifts[s].asked = "counted"
               /\ lastOp'.op \in {"shift_comment", "shift_skip"}
               /\ lastOp'.user = shifts[s].manager_id
         /\ (shifts[s].asked # "counted" /\ shifts'[s].asked = "counted") =>
               /\ shifts[s].asked = "confirmed"
               /\ fsm'[shifts[s].manager_id].dialogs_count >= 0]_vars

\* a shift has been closed by the skip button, its dialog count stored
C17_Witness ==
    /\ lastOp.op = "shift_skip"
    /\ lastOp.result = "closed"
    /\ \E s \in 1..Len(shifts) :
         /\ shifts[s].manager_id = lastOp.user
         /\ shifts[s].ended
         /\ shifts[s].dialogs_count >= 0

\* ===================================================== form wizard
\* A callback handler is not filtered by the FSM state; the press needs the
\* button.  The keyboard a step sends is in the chat while the conversation
\* is at that step, which is what the state guards of the callback handlers
\* below stand for.  Two messages outlive their step and are tracked in
\* chat: the password prompt and the rejection notice.
ChatAdd(u, add) == chat' = [chat EXCEPT ![u] = @ \cup add]
ChatSwap(u, remove, add) == chat' = [chat EXCEPT ![u] = (@ \ remove) \cup add]

\* kb_dm_back_cancel_inline(back_cb="dm:back_to_bank_select") and
\* kb_dm_duplicate_bank_phone_inline: a message with the back-to-banks button
PasswordPrompt == <<"back_to_bank_select", 0>>
\* kb_dm_reject_notice (keyboards.py:254-258)
RejectNotice(f) == <<"reject_notice", f>>

\* dm_create_form_cb (drop_manager.py:2321-2361) and its text twin
\* create_form_entry (drop_manager.py:2288-2318); cap is the number of
\* forms the behaviours of a specification go up to
dm_create_form_cb_mut(m, cap) ==
    /\ role[m] = "DROP_MANAGER"
    /\ IF ~manager_tag[m]
       THEN /\ lastOp' = Op("create_form", m, 0, "no_tag")
            /\ UNCHANGED <<forms, fsm>>
       ELSE /\ Len(forms) < cap
            /\ forms' = Append(forms, NewForm(m, get_active_shift(m)))
            /\ fsm' = [fsm EXCEPT ![m].form_id = Len(forms) + 1,
                                  ![m].state = IF source[m] = "TG" THEN "phone" ELSE "traffic_type"]
            /\ lastOp' = Op("create_form", m, Len(forms) + 1, "ok")
    /\ UNCHANGED <<userVars, shifts, reports, chat, poolVars, clock>>

dm_create_form_cb(m, cap) ==
    /\ role[m] = "DROP_MANAGER"
    /\ IF ~manager_tag[m]
       THEN /\ lastOp' = Op("create_form", m, 0, "no_tag")
            /\ UNCHANGED <<forms, fsm>>
       ELSE IF get_active_shift(m) = 0
       THEN /\ lastOp' = Op("create_form", m, 0, "no_shift")
            /\ UNCHANGED <<forms, fsm>>
       ELSE /\ Len(forms) < cap
            /\ forms' = Append(forms, NewForm(m, get_active_shift(m)))
            /\ fsm' = [fsm EXCEPT ![m].form_id = Len(forms) + 1,
                                  ![m].state = IF source[m] = "TG" THEN "phone" ELSE "traffic_type"]
            /\ lastOp' = Op("create_form", m, Len(forms) + 1, "ok")
    /\ UNCHANGED <<userVars, shifts, reports, chat, poolVars, clock>>

\* dm_traffic_cb (drop_manager.py:2364-2402)
dm_traffic_cb(m, choice) ==
    LET f == fsm[m].form_id IN
    /\ fsm[m].state \in {"traffic_type", "edit_traffic_type"}
    /\ f # 0
    /\ get_form(f)
    /\ IF choice = "DIRECT"
       THEN /\ forms' = [forms EXCEPT ![f].traffic_type = "DIRECT", ![f].referral_user = FALSE]
            /\ fsm' = [fsm EXCEPT ![m].state = "direct_forward"]
       ELSE /\ forms' = [forms EXCEPT ![f].traffic_type = "REFERRAL"]
            /\ fsm' = [fsm EXCEPT ![m].state = "referral_forward_1"]
    /\ lastOp' = Step
    /\ UNCHANGED <<userVars, shifts, reports, chat, poolVars, clock>>

\* form_direct_forward (drop_manager.py:2606-2639); the forwarded message
\* carries every sub-field, so the manual-entry detour is not taken
form_direct_forward(m) ==
    LET f == fsm[m].form_id IN
    /\ fsm[m].state = "direct_forward"
    /\ f # 0
    /\ get_form(f)
    /\ IF source[m] = "TG"
       THEN forms' = [forms EXCEPT ![f].traffic_type = "", ![f].direct_user = FALSE, ![f].referral_user = FALSE]
       ELSE forms' = [forms EXCEPT ![f].direct_user = TRUE]
    /\ fsm' = [fsm EXCEPT ![m].state = "phone"]
    /\ lastOp' = Step
    /\ UNCHANGED <<userVars, shifts, reports, chat, poolVars, clock>>

\* form_referral_forward_1 (drop_manager.py:2642-2661)
form_referral_forward_1(m) ==
    LET f == fsm[m].form_id IN
    /\ fsm[m].state = "referral_forward_1"
    /\ f # 0
    /\ get_form(f)
    /\ forms' = [forms EXCEPT ![f].direct_user = TRUE]
    /\ fsm' = [fsm EXCEPT ![m].state = "referral_forward_2"]
    /\ lastOp' = Step
    /\ UNCHANGED <<userVars, shifts, reports, chat, poolVars, clock>>

\* form_referral_forward_2 (drop_manager.py:2664-2686)
form_referral_forward_2(m) ==
    LET f == fsm[m].form_id IN
    /\ fsm[m].state = "referral_forward_2"
    /\ f # 0
    /\ get_form(f)
    /\ forms' = [forms EXCEPT ![f].referral_user = TRUE]
    /\ fsm' = [fsm EXCEPT ![m].state = "phone"]
    /\ lastOp' = Step
    /\ UNCHANGED <<userVars, shifts, reports, chat, poolVars, clock>>

\* form_phone (drop_manager.py:2825-2862): the number is stored, the forms
\* sharing it are only listed, the bank keyboard is sent
form_phone(m, p) ==
    LET f == fsm[m].form_id IN
    /\ fsm[m].state = "phone"
    /\ f # 0
    /\ get_form(f)
    /\ forms' = [forms EXCEPT ![f].phone = p]
    /\ fsm' = [fsm EXCEPT ![m].state = "bank_select"]
    /\ lastOp' = Step
    /\ UNCHANGED <<userVars, shifts, reports, chat, poolVars, clock>>

create_duplicate_report_mut(m, phone, bank_name) ==
    /\ Cardinality(reports) < MaxReports
    /\ reports' = reports

\* create_duplicate_report (repositories.py:538-556); the fields of a report
\* are the columns of DuplicateReport (models.py:73-85) the call fills in
create_duplicate_report(m, phone, bank_name) ==
    /\ Cardinality(reports) < MaxReports
    /\ reports' = reports \cup {[id |-> Cardinality(reports) + 1, manager_id |-> m,
                                 phone |-> phone, bank_name |-> bank_name]}

\* The part the three bank handlers share (drop_manager.py:2913-2967,
\* 2985-3038, 3079-3117): the name is stored on the form, then the
\* duplicate lookup runs if the form has a phone; a hit writes a report and
\* shows the notice with the back-to-banks button, otherwise the password
\* is asked for in a message that carries the same button.
bank_chosen(m, name) ==
    LET f == fsm[m].form_id
        dup == forms[f].phone # NoPhone /\ DuplicatesOf(forms[f].phone, name, f) # {}
    IN /\ f # 0
       /\ get_form(f)
       /\ forms' = [forms EXCEPT ![f].bank_name = name]
       /\ IF dup
          THEN /\ create_duplicate_report(m, forms[f].phone, name)
               /\ fsm' = [fsm EXCEPT ![m].state = "bank_select"]
               /\ lastOp' = Op("bank_pick", m, f, "duplicate")
          ELSE /\ UNCHANGED reports
               /\ fsm' = [fsm EXCEPT ![m].state = "password"]
               /\ lastOp' = Op("bank_pick", m, f, "ok")
       /\ ChatAdd(m, {PasswordPrompt})
       /\ UNCHANGED <<userVars, shifts, poolVars, clock>>

\* dm_bank_pick_id_cb (drop_manager.py:2880-2967)
dm_bank_pick_id_cb(m, b) ==
    /\ fsm[m].state = "bank_select"
    /\ b \in BankIds
    /\ bank_chosen(m, banks[b])

\* dm_bank_pick_cb (drop_manager.py:2970-3038)
dm_bank_pick_cb(m, name) ==
    /\ fsm[m].state = "bank_select"
    /\ get_bank_by_name(name) # 0
    /\ bank_chosen(m, name)

\* form_bank_select (drop_manager.py:3065-3117)
form_bank_select(m, name) ==
    /\ fsm[m].state = "bank_select"
    /\ get_bank_by_name(name) # 0
    /\ bank_chosen(m, name)

\* dm_back_to_bank_select_cb (drop_manager.py:3047-3062): no check of the
\* user, the form or the step; the pressed message becomes the bank keyboard
dm_back_to_bank_select_cb(m) ==
    /\ PasswordPrompt \in chat[m]
    /\ fsm' = [fsm EXCEPT ![m].state = "bank_select"]
    /\ ChatSwap(m, {PasswordPrompt}, {})
    /\ lastOp' = Step
    /\ UNCHANGED <<userVars, shifts, forms, reports, poolVars, clock>>

\* required screenshot count of the form's bank for the owner's source
\* (drop_manager.py:3186-3195, 1872-1881)
required_screens(f) ==
    IF get_bank_by_name(forms[f].bank_name) # 0
    THEN RequiredScreens(Banks[get_bank_by_name(forms[f].bank_name)], source[forms[f].manager_id])
    ELSE 0

\* form_password (drop_manager.py:3172-3210)
form_password(m) ==
    LET f == fsm[m].form_id IN
    /\ fsm[m].state = "password"
    /\ f # 0
    /\ get_form(f)
    /\ forms' = [forms EXCEPT ![f].password = "12345"]
    /\ fsm' = [fsm EXCEPT ![m].state = "screenshots", ![m].expected = required_screens(f),
                          ![m].collected = 0]
    /\ lastOp' = Step
    /\ UNCHANGED <<userVars, shifts, reports, chat, poolVars, clock>>

\* form_screenshot_add (drop_manager.py:3266-3350), one photo that is not
\* part of an album
form_screenshot_add(m) ==
    LET f == fsm[m].form_id
        n == IF fsm[m].collected < ScreenCap THEN fsm[m].collected + 1 ELSE fsm[m].collected
    IN
    /\ fsm[m].state = "screenshots"
    /\ fsm[m].collected < MaxCollected
    /\ IF fsm[m].expected > 0 /\ n >= fsm[m].expected
       THEN /\ f # 0
            /\ get_form(f)
            /\ forms' = [forms EXCEPT ![f].screenshots = n]
            /\ fsm' = [fsm EXCEPT ![m].collected = n, ![m].state = "comment"]
       ELSE /\ fsm' = [fsm EXCEPT ![m].collected = n]
            /\ UNCHANGED forms
    /\ lastOp' = Step
    /\ UNCHANGED <<userVars, shifts, reports, chat, poolVars, clock>>

\* dm_screens_done_cb (drop_manager.py:3225-3245)
dm_screens_done_cb(m) ==
    LET f == fsm[m].form_id IN
    /\ fsm[m].state = "screenshots"
    /\ fsm[m].collected > 0
    /\ f # 0
    /\ get_form(f)
    /\ forms' = [forms EXCEPT ![f].screenshots = fsm[m].collected]
    /\ fsm' = [fsm EXCEPT ![m].state = "comment"]
    /\ lastOp' = Step
    /\ UNCHANGED <<userVars, shifts, reports, chat, poolVars, clock>>

\* form_comment (drop_manager.py:3530-3549): the preview with
\* kb_form_confirm_with_edit is sent
form_comment(m) ==
    LET f == fsm[m].form_id IN
    /\ fsm[m].state = "comment"
    /\ f # 0
    /\ get_form(f)
    /\ forms' = [forms EXCEPT ![f].comment = "ok"]
    /\ fsm' = [fsm EXCEPT ![m].state = "confirm"]
    /\ lastOp' = Step
    /\ UNCHANGED <<userVars, shifts, reports, chat, poolVars, clock>>

\* the prompts of the wizard that carry the cancel button
\* (kb_dm_back_cancel_inline, kb_dm_traffic_type_inline: keyboards.py:437-459)
CancelSteps ==
    {"traffic_type", "direct_forward", "referral_forward_1", "referral_forward_2",
     "phone", "bank_select", "password", "screenshots", "comment"}

\* dm_cancel_form_cb (drop_manager.py:2422-2432)
dm_cancel_form_cb(m) ==
    LET f == fsm[m].form_id IN
    /\ fsm[m].state \in CancelSteps
    /\ IF f # 0 /\ get_form(f)
       THEN /\ forms' = [forms EXCEPT ![f].deleted = TRUE]
            /\ lastOp' = Op("cancel_form", m, f, forms[f].status)
       ELSE /\ lastOp' = Op("cancel_form", m, 0, "")
            /\ UNCHANGED forms
    /\ fsm' = [fsm EXCEPT ![m] = EmptyFsm]
    /\ UNCHANGED <<userVars, shifts, reports, chat, poolVars, clock>>

\* form_confirm_cb (drop_manager.py:3552-3633)
form_confirm_cb(m, data) ==
    LET f == fsm[m].form_id IN
    /\ fsm[m].state = "confirm"
    /\ f # 0
    /\ get_form(f)
    /\ IF data = "form_submit" /\ forms[f].bank_name = NoBank
       THEN /\ fsm' = [fsm EXCEPT ![m].state = "bank_select"]
            /\ lastOp' = Op("form_confirm", m, f, "choose_bank")
            /\ UNCHANGED forms
       ELSE IF /\ data = "form_submit"
               /\ forms[f].phone # NoPhone
               /\ DuplicatesOf(forms[f].phone, forms[f].bank_name, f) # {}
       THEN /\ lastOp' = Op("form_confirm", m, f, "duplicate")
            /\ UNCHANGED <<forms, fsm>>
       ELSE IF data = "form_cancel"
       THEN /\ forms' = [forms EXCEPT ![f].deleted = TRUE]
            /\ fsm' = [fsm EXCEPT ![m] = EmptyFsm]
            /\ lastOp' = Op("form_confirm", m, f, "cancelled")
       ELSE /\ forms' = [forms EXCEPT ![f].status = "PENDING"]
            /\ fsm' = [fsm EXCEPT ![m] = EmptyFsm]
            /\ lastOp' = Op("form_confirm", m, f, "submitted")
    /\ UNCHANGED <<userVars, shifts, reports, chat, poolVars, clock>>

\* ===================================================== my forms, edit
\* dm_my_form_open_cb (drop_manager.py:1673-1743): the view carries
\* Send/Edit, or Resume if the form is in progress
dm_my_form_open_cb(m, f) ==
    /\ role[m] = "DROP_MANAGER"
    /\ get_form(f)
    /\ forms[f].manager_id = m
    /\ fsm' = [fsm EXCEPT ![m].state = "form_view", ![m].my_form_id = f]
    /\ lastOp' = Step
    /\ UNCHANGED <<userVars, shifts, forms, reports, chat, poolVars, clock>>

\* kb_dm_my_form_open (keyboards.py:75-88): which buttons the open view of
\* form f has
my_form_view(m, f, in_progress) ==
    /\ fsm[m].state = "form_view"
    /\ fsm[m].my_form_id = f
    /\ get_form(f)
    /\ (forms[f].status = "IN_PROGRESS") = in_progress

\* dm_my_form_send_cb (drop_manager.py:1746-1774)
dm_my_form_send_cb(m, f) ==
    /\ my_form_view(m, f, FALSE)
    /\ role[m] = "DROP_MANAGER"
    /\ get_form(f)
    /\ forms[f].manager_id = m
    /\ forms' = [forms EXCEPT ![f].status = "PENDING", ![f].team_lead_comment = ""]
    /\ lastOp' = Op("my_form_send", m, f, "submitted")
    /\ UNCHANGED <<userVars, shifts, reports, fsm, chat, poolVars, clock>>

\* dm_my_form_delete_cb (drop_manager.py:1916-1938): the Delete button is on
\* the open view of a form in any status (keyboards.py:81, 87)
dm_my_form_delete_cb(m, f) ==
    /\ fsm[m].state = "form_view"
    /\ fsm[m].my_form_id = f
    /\ role[m] = "DROP_MANAGER"
    /\ get_form(f)
    /\ forms[f].manager_id = m
    /\ forms' = [forms EXCEPT ![f].deleted = TRUE]
    /\ fsm' = [fsm EXCEPT ![m].state = "none", ![m].my_form_id = 0]
    /\ lastOp' = Op("my_form_delete", m, f, forms[f].status)
    /\ UNCHANGED <<userVars, shifts, reports, chat, poolVars, clock>>

\* the step dm_my_form_resume_cb lands on (drop_manager.py:1802-1913)
resume_state(form, src) ==
    IF form.traffic_type = "" THEN (IF src = "TG" THEN "phone" ELSE "traffic_type")
    ELSE IF form.traffic_type = "DIRECT" /\ ~form.direct_user THEN "direct_forward"
    ELSE IF form.traffic_type = "REFERRAL" /\ ~form.direct_user THEN "referral_forward_1"
    ELSE IF form.traffic_type = "REFERRAL" /\ ~form.referral_user THEN "referral_forward_2"
    ELSE IF form.phone = NoPhone THEN "phone"
    ELSE IF form.bank_name = NoBank THEN "bank_select"
    ELSE IF form.password = "" THEN "password"
    ELSE IF form.screenshots = 0 THEN "screenshots"
    ELSE IF form.comment = "" THEN "comment"
    ELSE "confirm"

\* dm_my_form_resume_cb (drop_manager.py:1777-1913)
dm_my_form_resume_cb(m, f) ==
    LET st == resume_state(forms[f], source[m]) IN
    /\ my_form_view(m, f, TRUE)
    /\ role[m] = "DROP_MANAGER"
    /\ forms[f].manager_id = m
    /\ forms[f].status = "IN_PROGRESS"
    /\ fsm' = [fsm EXCEPT ![m] = [EmptyFsm EXCEPT !.state = st, !.form_id = f,
                  !.expected = IF st = "screenshots" THEN required_screens(f) ELSE 0]]
    /\ IF st = "password" THEN ChatAdd(m, {PasswordPrompt}) ELSE UNCHANGED chat
    /\ lastOp' = Op("resume", m, f, st)
    /\ UNCHANGED <<userVars, shifts, forms, reports, poolVars, clock>>

\* edit_open (drop_manager.py:3636-3705): pressed on the preview of the
\* confirm step, on the open view of a sent form or on a rejection notice
edit_open(m, f) ==
    /\ \/ fsm[m].state = "confirm" /\ fsm[m].form_id = f
       \/ my_form_view(m, f, FALSE)
       \/ RejectNotice(f) \in chat[m]
    /\ role[m] = "DROP_MANAGER"
    /\ get_form(f)
    /\ forms[f].manager_id = m
    /\ fsm' = [fsm EXCEPT ![m] = [EmptyFsm EXCEPT !.state = "choose_field", !.form_id = f]]
    /\ ChatSwap(m, {RejectNotice(f)}, {})
    /\ lastOp' = Step
    /\ UNCHANGED <<userVars, shifts, forms, reports, poolVars, clock>>

\* kb_dm_edit_actions_inline (keyboards.py:261-273) is on screen
edit_actions_shown(m, f) == fsm[m].state = "choose_field" /\ fsm[m].form_id = f

\* dm_edit_field_cb (drop_manager.py:4037-4242), fields traffic_type, phone
\* and bank; the traffic_type prompt carries kb_dm_traffic_type_inline, whose
\* buttons are served by dm_traffic_cb
dm_edit_field_cb(m, f, field) ==
    /\ edit_actions_shown(m, f)
    /\ role[m] = "DROP_MANAGER"
    /\ get_form(f)
    /\ forms[f].manager_id = m
    /\ fsm' = [fsm EXCEPT ![m].state = IF field = "traffic_type" THEN "edit_traffic_type"
                                       ELSE IF field = "phone" THEN "edit_phone" ELSE "edit_bank_select",
                          ![m].form_id = f]
    /\ lastOp' = Step
    /\ UNCHANGED <<userVars, shifts, forms, reports, chat, poolVars, clock>>

\* dm_edit_screens_done_cb (drop_manager.py:3950-3992): f is the form id of
\* the button data; the screenshots are the ones the conversation has
\* collected (key collected_screens, the wizard's as well)
dm_edit_screens_done_cb(m, f) ==
    /\ fsm[m].collected > 0
    /\ IF ~get_form(f)
       THEN /\ fsm' = [fsm EXCEPT ![m] = EmptyFsm]
            /\ lastOp' = Op("edit_screens_done", m, f, "not_found")
            /\ UNCHANGED forms
       ELSE /\ forms' = [forms EXCEPT ![f].screenshots = fsm[m].collected]
            /\ fsm' = IF forms[f].status = "IN_PROGRESS"
                      THEN [fsm EXCEPT ![m].state = "confirm", ![m].form_id = f]
                      ELSE [fsm EXCEPT ![m].state = "choose_field"]
            /\ lastOp' = Op("edit_screens_done", m, f, "stored")
    /\ UNCHANGED <<userVars, shifts, reports, chat, poolVars, clock>>

\* edit_phone (drop_manager.py:4551-4562) with _after_dm_edit_show_form
\* (drop_manager.py:999-1021)
edit_phone(m, p) ==
    LET f == fsm[m].form_id IN
    /\ fsm[m].state = "edit_phone"
    /\ f # 0
    /\ get_form(f)
    /\ forms' = [forms EXCEPT ![f].phone = p]
    /\ fsm' = [fsm EXCEPT ![m].state = "choose_field", ![m].form_id = f]
    /\ lastOp' = Step
    /\ UNCHANGED <<userVars, shifts, reports, chat, poolVars, clock>>

\* dm_edit_bank_pick_id_cb (drop_manager.py:4587-4640)
dm_edit_bank_pick_id_cb(m, f, b) ==
    /\ fsm[m].state = "edit_bank_select"
    /\ fsm[m].form_id = f
    /\ role[m] = "DROP_MANAGER"
    /\ get_form(f)
    /\ forms[f].manager_id = m
    /\ b \in BankIds
    /\ forms' = [forms EXCEPT ![f].bank_name = banks[b]]
    /\ fsm' = [fsm EXCEPT ![m].state = "choose_field", ![m].form_id = f]
    /\ lastOp' = Step
    /\ UNCHANGED <<userVars, shifts, reports, chat, poolVars, clock>>

\* dm_edit_resubmit_cb (drop_manager.py:3848-3916)
dm_edit_resubmit_cb(m, f) ==
    /\ edit_actions_shown(m, f)
    /\ get_form(f)
    /\ role[m] = "DROP_MANAGER"
    /\ forms[f].manager_id = m
    /\ IF forms[f].bank_name = NoBank
       THEN /\ fsm' = [fsm EXCEPT ![m].state = "edit_bank_select", ![m].form_id = f]
            /\ lastOp' = Op("edit_resubmit", m, f, "choose_bank")
            /\ UNCHANGED forms
       ELSE IF /\ forms[f].phone # NoPhone
               /\ DuplicatesOf(forms[f].phone, forms[f].bank_name, f) # {}
       THEN /\ lastOp' = Op("edit_resubmit", m, f, "duplicate")
            /\ UNCHANGED <<forms, fsm>>
       ELSE /\ forms' = [forms EXCEPT ![f].status = "PENDING", ![f].team_lead_comment = ""]
            /\ fsm' = [fsm EXCEPT ![m] = EmptyFsm]
            /\ lastOp' = Op("edit_resubmit", m, f, "submitted")
    /\ UNCHANGED <<userVars, shifts, reports, chat, poolVars, clock>>

\* edit_choose_field (drop_manager.py:4245-4285), the text of the
\* resubmit button typed into the chat
edit_choose_field(m) ==
    LET f == fsm[m].form_id IN
    /\ fsm[m].state = "choose_field"
    /\ f # 0
    /\ get_form(f)
    /\ IF forms[f].bank_name = NoBank
       THEN /\ fsm' = [fsm EXCEPT ![m].state = "edit_bank_select"]
            /\ lastOp' = Op("edit_choose_field", m, f, "choose_bank")
            /\ UNCHANGED forms
       ELSE /\ forms' = [forms EXCEPT ![f].status = "PENDING", ![f].team_lead_comment = ""]
            /\ fsm' = [fsm EXCEPT ![m] = EmptyFsm]
            /\ lastOp' = Op("edit_choose_field", m, f, "submitted")
    /\ UNCHANGED <<userVars, shifts, reports, chat, poolVars, clock>>

\* ===================================================== review
\* is_team_lead (team_lead.py)
is_team_lead(t) == role[t] = "TEAM_LEAD"

\* tl_live_open_cb (team_lead.py:725-763): the controls of a Pending form
\* are sent to the team lead and remembered in the conversation data, the
\* previously opened ones are deleted
tl_live_open_cb(t, f) ==
    /\ is_team_lead(t)
    /\ get_form(f)
    /\ forms[f].status = "PENDING"
    /\ fsm' = [fsm EXCEPT ![t].controls = f]
    /\ lastOp' = Step
    /\ UNCHANGED <<userVars, shifts, forms, reports, chat, poolVars, clock>>

\* set_form_status (repositories.py:280-285)
set_form_status(f, status, team_lead_comment) ==
    forms' = [forms EXCEPT ![f].status = status, ![f].team_lead_comment = team_lead_comment]

\* review_form (team_lead.py:1222-1323); the press is on the controls
\* message of form f in the team lead's chat
review_form(t, f, action) ==
    /\ fsm[t].controls = f
    /\ f # 0
    /\ is_team_lead(t)
    /\ get_form(f)
    /\ IF action = "approve"
       THEN /\ set_form_status(f, "APPROVED", "")
            /\ fsm' = [fsm EXCEPT ![t].controls = 0]
            /\ lastOp' = Op("approve", t, f, forms[f].status)
       ELSE /\ fsm' = [fsm EXCEPT ![t].state = "reject_comment", ![t].form_id = f]
            /\ lastOp' = Step
            /\ UNCHANGED forms
    /\ UNCHANGED <<userVars, shifts, reports, chat, poolVars, clock>>

\* reject_comment (team_lead.py:1340-1400); the manager receives the
\* rejection notice with the edit button
reject_comment(t) ==
    LET f == fsm[t].form_id IN
    /\ fsm[t].state = "reject_comment"
    /\ is_team_lead(t)
    /\ f # 0
    /\ get_form(f)
    /\ set_form_status(f, "REJECTED", "fix it")
    /\ fsm' = [fsm EXCEPT ![t] = EmptyFsm]
    /\ ChatAdd(forms[f].manager_id, {RejectNotice(f)})
    /\ lastOp' = Op("reject", t, f, forms[f].status)
    /\ UNCHANGED <<userVars, shifts, reports, poolVars, clock>>

\* ===================================================== payment
\* mark_form_payment_done and the rest of _finish_payment
\* (repositories.py:273-277, drop_manager.py:672-747)
finish_payment(m, f, by) ==
    /\ clock < MaxClock
    /\ clock' = clock + 1
    /\ forms' = [forms EXCEPT ![f].payment_done_at = clock + 1]
    /\ fsm' = [fsm EXCEPT ![m] = EmptyFsm]
    /\ lastOp' = Op(by, m, f, forms[f].status)
    /\ UNCHANGED <<userVars, shifts, reports, chat, poolVars>>

\* dm_pay_card_start_cb (drop_manager.py:1305-1337)
dm_pay_card_start_cb_mut(m, f) ==
    /\ role[m] = "DROP_MANAGER"
    /\ get_form(f)
    /\ forms[f].manager_id = m
    /\ IF forms[f].status # "APPROVED"
       THEN /\ lastOp' = Op("pay_start", m, f, "not_approved")
            /\ UNCHANGED fsm
       ELSE /\ fsm' = [fsm EXCEPT ![m] = [EmptyFsm EXCEPT !.state = "card_main", !.pay_form_id = f,
                                      !.pay_traffic = forms[f].traffic_type]]
            /\ lastOp' = Op("pay_start", m, f, "ok")
    /\ UNCHANGED <<userVars, shifts, forms, reports, chat, poolVars, clock>>

dm_pay_card_start_cb(m, f) ==
    /\ role[m] = "DROP_MANAGER"
    /\ get_form(f)
    /\ forms[f].manager_id = m
    /\ IF forms[f].status # "APPROVED"
       THEN /\ lastOp' = Op("pay_start", m, f, "not_approved")
            /\ UNCHANGED fsm
       ELSE IF forms[f].payment_done_at # 0
       THEN /\ lastOp' = Op("pay_start", m, f, "already_paid")
            /\ UNCHANGED fsm
       ELSE /\ fsm' = [fsm EXCEPT ![m] = [EmptyFsm EXCEPT !.state = "card_main", !.pay_form_id = f,
                                      !.pay_traffic = forms[f].traffic_type]]
            /\ lastOp' = Op("pay_start", m, f, "ok")
    /\ UNCHANGED <<userVars, shifts, forms, reports, chat, poolVars, clock>>

\* dm_pay_card_main_msg (drop_manager.py:1388-1403)
dm_pay_card_main_msg(m) ==
    /\ fsm[m].state = "card_main"
    /\ get_form(fsm[m].pay_form_id)
    /\ fsm' = [fsm EXCEPT ![m].state = "amount_main"]
    /\ lastOp' = Step
    /\ UNCHANGED <<userVars, shifts, forms, reports, chat, poolVars, clock>>

\* the prompt with the buttons "add a card" and "final"
\* (kb_dm_payment_next_actions, keyboards.py:108-113); it stays in the chat
PayActions == <<"pay_next_actions", 0>>

\* dm_pay_amount_main_msg (drop_manager.py:1406-1445)
dm_pay_amount_main_msg(m) ==
    LET f == fsm[m].pay_form_id IN
    /\ fsm[m].state = "amount_main"
    /\ get_form(f)
    /\ IF source[m] = "TG"
       THEN /\ fsm[m].pay_items < MaxPayItems
            /\ fsm' = [fsm EXCEPT ![m].pay_items = @ + 1, ![m].state = "next_action"]
            /\ ChatAdd(m, {PayActions})
            /\ lastOp' = Step
            /\ UNCHANGED <<forms, clock, userVars, shifts, reports, poolVars>>
       ELSE IF fsm[m].pay_traffic = "REFERRAL"
       THEN /\ fsm' = [fsm EXCEPT ![m].state = "card_bonus"]
            /\ lastOp' = Step
            /\ UNCHANGED <<forms, clock, userVars, shifts, reports, chat, poolVars>>
       ELSE finish_payment(m, f, "pay_amount_main")

\* dm_pay_add_card_cb (drop_manager.py:1448-1461)
dm_pay_add_card_cb(m) ==
    /\ PayActions \in chat[m]
    /\ IF get_form(fsm[m].pay_form_id)
       THEN fsm' = [fsm EXCEPT ![m].state = "card_main"]
       ELSE fsm' = [fsm EXCEPT ![m] = EmptyFsm]
    /\ lastOp' = Step
    /\ UNCHANGED <<userVars, shifts, forms, reports, chat, poolVars, clock>>

\* the finalize request both dm_pay_next_action_text and dm_pay_finish_cb
\* make (drop_manager.py:1473-1492, 1511-1545): the list of pairs must not
\* be empty
pay_finalize_mut(m, by) ==
    LET f == fsm[m].pay_form_id IN
    IF ~get_form(f)
    THEN /\ fsm' = [fsm EXCEPT ![m] = EmptyFsm]
         /\ lastOp' = Op(by, m, 0, "no_form")
         /\ UNCHANGED <<userVars, shifts, forms, reports, chat, poolVars, clock>>
    ELSE finish_payment(m, f, by)

pay_finalize(m, by) ==
    LET f == fsm[m].pay_form_id IN
    IF ~get_form(f)
    THEN /\ fsm' = [fsm EXCEPT ![m] = EmptyFsm]
         /\ lastOp' = Op(by, m, 0, "no_form")
         /\ UNCHANGED <<userVars, shifts, forms, reports, chat, poolVars, clock>>
    ELSE IF fsm[m].pay_items = 0
    THEN /\ lastOp' = Op(by, m, f, "add_a_card")
         /\ UNCHANGED <<userVars, shifts, forms, reports, fsm, chat, poolVars, clock>>
    ELSE finish_payment(m, f, by)

\* dm_pay_next_action_text (drop_manager.py:1464-1504), the text "final"
dm_pay_next_action_text(m) ==
    /\ fsm[m].state = "next_action"
    /\ pay_finalize(m, "pay_final_text")

\* dm_pay_finish_cb (drop_manager.py:1507-1545)
dm_pay_finish_cb(m) ==
    /\ PayActions \in chat[m]
    /\ pay_finalize(m, "pay_finish")

\* dm_pay_phone_bonus_msg (drop_manager.py:1548-1563); no handler sets the
\* state phone_bonus
dm_pay_phone_bonus_msg(m) ==
    /\ fsm[m].state = "phone_bonus"
    /\ IF get_form(fsm[m].pay_form_id)
       THEN fsm' = [fsm EXCEPT ![m].state = "card_bonus", ![m].pay_phone_bonus = TRUE]
       ELSE fsm' = [fsm EXCEPT ![m] = EmptyFsm]
    /\ lastOp' = Step
    /\ UNCHANGED <<userVars, shifts, forms, reports, chat, poolVars, clock>>

\* dm_pay_card_bonus_msg (drop_manager.py:1566-1581)
dm_pay_card_bonus_msg(m) ==
    /\ fsm[m].state = "card_bonus"
    /\ get_form(fsm[m].pay_form_id)
    /\ fsm' = [fsm EXCEPT ![m].state = "amount_bonus"]
    /\ lastOp' = Step
    /\ UNCHANGED <<userVars, shifts, forms, reports, chat, poolVars, clock>>

\* dm_pay_amount_bonus_msg (drop_manager.py:1584-1620)
dm_pay_amount_bonus_msg(m) ==
    /\ fsm[m].state = "amount_bonus"
    /\ get_form(fsm[m].pay_form_id)
    /\ finish_payment(m, fsm[m].pay_form_id, "pay_amount_bonus")

\* ===================================================== the bot
\* The handlers and the duplicate lookup do not look at who owns the other
\* form, so the forms of the specifications below are one manager's.
Author == "m1"

\* Filling forms in, from the menu button to the preview.
Next ==
    \/ dm_start_shift_cb(Author)
    \/ dm_create_form_cb(Author, MaxForms)
    \/ \E c \in {"DIRECT", "REFERRAL"} : dm_traffic_cb(Author, c)
    \/ form_direct_forward(Author)
    \/ form_referral_forward_1(Author)
    \/ form_referral_forward_2(Author)
    \/ \E p \in Phones : form_phone(Author, p)
    \/ \E b \in BankIds : dm_bank_pick_id_cb(Author, b)
    \/ dm_bank_pick_cb(Author, BankQ)
    \/ form_bank_select(Author, BankAl)
    \/ dm_back_to_bank_select_cb(Author)
    \/ form_password(Author)
    \/ form_screenshot_add(Author)
    \/ dm_screens_done_cb(Author)
    \/ form_comment(Author)
    \/ \E data \in {"form_submit", "form_cancel"} : form_confirm_cb(Author, data)

Spec == Init /\ [][Next]_vars

\* C5: whenever an action sets a form to Pending, the form has a phone, a
\* bank, a password and at least one screenshot.
C5_PendingNeedsAllFields ==
    lastOp.result = "submitted" =>
        /\ forms[lastOp.form].status = "PENDING"
        /\ forms[lastOp.form].phone # NoPhone
        /\ forms[lastOp.form].bank_name # NoBank
        /\ forms[lastOp.form].password # ""
        /\ forms[lastOp.form].screenshots >= 1

\* C9: a bank selection that collides with another form (same phone, same
\* bank key) leaves the form's bank_name as it was and keeps the manager in
\* the bank_select state.
C9_BlockedBankNotPersisted ==
    [][(lastOp'.op = "bank_pick" /\ lastOp'.result = "duplicate") =>
          /\ forms'[lastOp'.form].bank_name = forms[lastOp'.form].bank_name
          /\ fsm'[lastOp'.user].state = "bank_select"]_vars

\* Looking forms up, editing and sending them again; the forms are filled
\* in with buttons along the straight path.
NextEdit ==
    \/ dm_start_shift_cb(Author)
    \/ dm_create_form_cb(Author, MaxForms)
    \/ dm_traffic_cb(Author, "DIRECT")
    \/ form_direct_forward(Author)
    \/ \E p \in Phones : form_phone(Author, p)
    \/ \E b \in BankIds : dm_bank_pick_id_cb(Author, b)
    \/ form_password(Author)
    \/ form_screenshot_add(Author)
    \/ dm_screens_done_cb(Author)
    \/ form_comment(Author)
    \/ form_confirm_cb(Author, "form_submit")
    \/ \E f \in 1..MaxForms : dm_my_form_open_cb(Author, f)
    \/ \E f \in 1..MaxForms : dm_my_form_send_cb(Author, f)
    \/ \E f \in 1..MaxForms : edit_open(Author, f)
    \/ \E f \in 1..MaxForms, field \in {"phone", "bank"} : dm_edit_field_cb(Author, f, field)
    \/ \E p \in Phones : edit_phone(Author, p)
    \/ \E f \in 1..MaxForms, b \in BankIds : dm_edit_bank_pick_id_cb(Author, f, b)
    \/ \E f \in 1..MaxForms : dm_edit_resubmit_cb(Author, f)
    \/ edit_choose_field(Author)

SpecEdit == Init /\ [][NextEdit]_vars

\* C2: after any successful submit or resubmit no two distinct non-deleted
\* forms have the same phone and the same normalized bank key.
C2_NoDuplicateAfterSubmit ==
    lastOp.result = "submitted" =>
        \A f1, f2 \in FormIds :
            (f1 # f2 /\ ~forms[f1].deleted /\ ~forms[f2].deleted) =>
                ~ /\ forms[f1].phone # NoPhone
                  /\ forms[f1].phone = forms[f2].phone
                  /\ bank_duplicate_key(forms[f1].bank_name) # <<>>
                  /\ bank_duplicate_key(forms[f1].bank_name) = bank_duplicate_key(forms[f2].bank_name)

\* C22: no step sets the bank of a form whose phone is unset.
C22_BankAfterPhone ==
    [][\A f \in FormIds :
         (forms'[f].bank_name # forms[f].bank_name /\ forms'[f].bank_name # NoBank) =>
             forms[f].phone # NoPhone]_vars

\* C24: in every state, no two distinct non-deleted forms that both have a
\* phone and a bank share the phone and the normalized bank key.
C24_UniquePhoneBank ==
    \A f1, f2 \in FormIds :
        (f1 # f2 /\ ~forms[f1].deleted /\ ~forms[f2].deleted
           /\ forms[f1].phone # NoPhone /\ forms[f1].bank_name # NoBank) =>
            ~ /\ forms[f1].phone = forms[f2].phone
              /\ bank_duplicate_key(forms[f1].bank_name) # <<>>
              /\ bank_duplicate_key(forms[f1].bank_name) = bank_duplicate_key(forms[f2].bank_name)

\* C15: every resubmit flips the form to Pending only when its bank is set
\* and no other live form has the same phone and bank key; a resubmit that
\* fails either test leaves the status and the rejection comment unchanged.
C15_ResubmitRevalidates ==
    [][lastOp'.op \in {"edit_resubmit", "edit_choose_field", "my_form_send"} =>
         LET f == lastOp'.form IN
         IF /\ forms[f].bank_name # NoBank
            /\ ~(forms[f].phone # NoPhone /\ DuplicatesOf(forms[f].phone, forms[f].bank_name, f) # {})
         THEN TRUE
         ELSE /\ forms'[f].status = forms[f].status
              /\ forms'[f].team_lead_comment = forms[f].team_lead_comment]_vars

\* Giving up a form: forms are filled in along the straight path and are
\* cancelled on the way, cancelled or sent on the preview, deleted from the
\* open view.
NextDrop ==
    \/ dm_start_shift_cb(Author)
    \/ dm_create_form_cb(Author, MaxForms)
    \/ dm_traffic_cb(Author, "DIRECT")
    \/ form_direct_forward(Author)
    \/ \E p \in Phones : form_phone(Author, p)
    \/ dm_bank_pick_id_cb(Author, Len(Banks))
    \/ form_password(Author)
    \/ form_screenshot_add(Author)
    \/ dm_screens_done_cb(Author)
    \/ form_comment(Author)
    \/ \E data \in {"form_submit", "form_cancel"} : form_confirm_cb(Author, data)
    \/ dm_cancel_form_cb(Author)
    \/ \E f \in 1..MaxForms : dm_my_form_open_cb(Author, f)
    \/ \E f \in 1..MaxForms : dm_my_form_delete_cb(Author, f)

SpecDrop == Init /\ [][NextDrop]_vars

\* C16: the manager's own actions (cancel, delete) delete a form only while
\* it is in progress; a Pending, Approved or Rejected form is not deleted
\* by them.
C16_ManagerDeletesOnlyInProgress ==
    [][\A f \in FormIds :
         (~forms[f].deleted /\ forms'[f].deleted) => forms[f].status = "IN_PROGRESS"]_vars

\* A manager right after approval: the tag, the forwarding group and the
\* source may each be missing (models.py: all three columns are nullable and
\* are filled in later by capture_manager_tag_if_needed, the developer's
\* group binding and dm_pick_source_cb).
InitNew ==
    /\ role = [u \in Users |-> IF u = "m1" THEN "DROP_MANAGER"
                               ELSE IF u \in TeamLeads THEN "TEAM_LEAD"
                               ELSE IF u \in Providers THEN "WICTORY" ELSE "PENDING"]
    /\ \E src \in {"", "TG", "FB"} : source = [m \in Managers |-> IF m = "m1" THEN src ELSE "FB"]
    /\ access_requests = ProcessedRequests
    /\ album = [m \in Managers |-> NoAlbum]
    /\ \E t \in BOOLEAN : manager_tag = [m \in Managers |-> m # "m1" \/ t]
    /\ \E g \in BOOLEAN : forward_group_id = [m \in Managers |-> m # "m1" \/ g]
    /\ shifts = <<>>
    /\ forms = <<>>
    /\ reports = {}
    /\ banks = Banks
    /\ fsm = [u \in Users |-> EmptyFsm]
    /\ chat = [u \in Users |-> {}]
    /\ pool = [i \in 1..NItems |-> NewItem(i)]
    /\ take = [m \in Managers |-> [pc |-> "idle", item |-> 0]]
    /\ granted = [i \in 1..NItems |-> {}]
    /\ clock = 0
    /\ lastOp = Op("init", "", 0, "")

\* The new manager opens and closes shifts and asks for forms.
NextGate ==
    \/ dm_start_shift_cb("m1")
    \/ start_work("m1")
    \/ \E s \in 1..MaxShifts : end_work_confirm("m1", s)
    \/ \E text \in CountTexts : dm_shift_dialogs_count_message("m1", text)
    \/ dm_shift_comment_message("m1")
    \/ \E s \in 1..MaxShifts : dm_shift_comment_skip("m1", s)
    \/ dm_create_form_cb("m1", MaxForms)

SpecGate == InitNew /\ [][NextGate]_vars

\* C25: a form is created only while its manager has an open shift, and it
\* is attached to that shift; a create-form request made without an open
\* shift creates no form and leaves the conversation as it was.
C25_FormNeedsOpenShift ==
    [][ /\ \A f \in FormIds' \ FormIds :
             /\ get_active_shift(forms'[f].manager_id) # 0
             /\ forms'[f].shift_id = get_active_shift(forms'[f].manager_id)
        /\ (lastOp'.op = "create_form" /\ get_active_shift(lastOp'.user) = 0)
             => (forms' = forms /\ fsm' = fsm /\ lastOp'.result \in {"no_shift", "no_tag"}) ]_vars

\* a form was asked for after the shift of the earlier form had been closed
C25_Witness ==
    /\ lastOp.op = "create_form"
    /\ lastOp.result = "no_shift"
    /\ \E f \in FormIds : forms[f].manager_id = lastOp.user /\ shifts[forms[f].shift_id].ended

\* C26: a start-shift request of a manager without a forwarding group or
\* without a tag is answered with the guidance message and creates no shift
\* and changes nothing else.
C26_StartNeedsGroupAndTag ==
    [][(lastOp'.op \in {"start_shift", "start_work"}
          /\ (~forward_group_id[lastOp'.user] \/ ~manager_tag[lastOp'.user])) =>
         /\ lastOp'.result \in {"no_group", "no_tag"}
         /\ UNCHANGED <<userVars, shifts, forms, reports, fsm, chat, poolVars, clock>>]_vars

\* a start request was refused for the missing group or the missing tag
C26_Witness ==
    /\ lastOp.op \in {"start_shift", "start_work"}
    /\ lastOp.result \in {"no_group", "no_tag"}
    /\ shifts = <<>>

\* C27: every form belongs to a manager whose source is set.
C27_SourceNeeded ==
    \A f \in FormIds : source[forms[f].manager_id] # ""

\* Two managers fill forms in along the straight path with one phone number.
NextDup ==
    \/ \E m \in Managers : dm_start_shift_cb(m)
    \/ \E m \in Managers : dm_create_form_cb(m, MaxForms)
    \/ \E m \in Managers : dm_traffic_cb(m, "DIRECT")
    \/ \E m \in Managers : form_direct_forward(m)
    \/ \E m \in Managers : form_phone(m, "+380 991234567")
    \/ \E m \in Managers, b \in BankIds : dm_bank_pick_id_cb(m, b)
    \/ \E m \in Managers : form_password(m)
    \/ \E m \in Managers : form_screenshot_add(m)
    \/ \E m \in Managers : dm_screens_done_cb(m)
    \/ \E m \in Managers : form_comment(m)
    \/ \E m \in Managers : form_confirm_cb(m, "form_submit")

SpecDup == Init /\ [][NextDup]_vars

\* C23 as stated: the report written when a bank selection is blocked
\* names the form the selection collides with.
C23_ReportNamesForm ==
    [][(lastOp'.op = "bank_pick" /\ lastOp'.result = "duplicate") =>
          \E r \in reports' \ reports : "form_id" \in DOMAIN r]_vars

\* C23: a bank selection that collides with another manager's form keeps
\* the manager at the bank selection step and writes one report that
\* records this manager, the phone and the bank chosen.
C23_BlockedWithReport ==
    [][(lastOp'.op = "bank_pick" /\ lastOp'.result = "duplicate") =>
          LET f == lastOp'.form
              b == lastOp'.user
          IN /\ fsm'[b].state = "bank_select"
             /\ forms'[f].status = forms[f].status
             /\ \E r \in reports' \ reports :
                    /\ r.manager_id = b
                    /\ r.phone = forms[f].phone
                    /\ DuplicatesOf(r.phone, r.bank_name, f) # {}]_vars

\* dev_set_user_role_cb (developer.py:723-750): the developer gives user u
\* the role r; the conversation of u is not touched
dev_set_user_role_cb(u, r) ==
    /\ r \in UserRole
    /\ role' = [role EXCEPT ![u] = r]
    /\ lastOp' = Step
    /\ UNCHANGED <<source, manager_tag, forward_group_id, banks, access_requests, album, shifts,
                   forms, reports, fsm, chat, poolVars, clock>>

\* A form filled in along the straight path while the developer changes the
\* role of its author.
NextRole ==
    \/ dm_start_shift_cb(Author)
    \/ dm_create_form_cb(Author, MaxForms)
    \/ dm_traffic_cb(Author, "DIRECT")
    \/ form_direct_forward(Author)
    \/ form_phone(Author, "+380 991234567")
    \/ dm_bank_pick_id_cb(Author, Len(Banks))
    \/ form_password(Author)
    \/ form_screenshot_add(Author)
    \/ dm_screens_done_cb(Author)
    \/ form_comment(Author)
    \/ \E data \in {"form_submit", "form_cancel"} : form_confirm_cb(Author, data)
    \/ dm_cancel_form_cb(Author)
    \/ \E r \in {"PENDING", "DROP_MANAGER"} : dev_set_user_role_cb(Author, r)

SpecRole == Init /\ [][NextRole]_vars

\* C29: a form, shift or pool action of a user who is not a drop-manager
\* changes no form, no shift, no pool item and no conversation.
C29_WrongRoleDenied ==
    [][(lastOp'.user \in Managers /\ role[lastOp'.user] # "DROP_MANAGER") =>
         UNCHANGED <<forms, shifts, pool, fsm>>]_vars

\* Two managers open shifts, ask for forms and close the shifts.
NextTeam ==
    \/ \E m \in Managers : dm_start_shift_cb(m)
    \/ \E m \in Managers : dm_create_form_cb(m, MaxForms)
    \/ \E m \in Managers, s \in 1..MaxShifts : end_work_confirm(m, s)
    \/ \E m \in Managers, text \in CountTexts : dm_shift_dialogs_count_message(m, text)
    \/ \E m \in Managers : dm_shift_comment_message(m)
    \/ \E m \in Managers, s \in 1..MaxShifts : dm_shift_comment_skip(m, s)

SpecTeam == Init /\ [][NextTeam]_vars

\* C30: when the closing of a shift sends the team report of the day, no
\* shift of a drop-manager of the same source is open any more.
C30_TeamReportWhenAllClosed ==
    [][lastOp'.result = "closed_team_report" =>
         \A x \in 1..Len(shifts') :
             (/\ role[shifts'[x].manager_id] = "DROP_MANAGER"
              /\ source[shifts'[x].manager_id] = source[lastOp'.user]) => shifts'[x].ended]_vars

\* the report went out with the last shift of the source, after another
\* manager of the source had closed theirs
C30_Witness ==
    /\ lastOp.result = "closed_team_report"
    /\ \E x \in 1..Len(shifts) :
          /\ shifts[x].manager_id # lastOp.user
          /\ source[shifts[x].manager_id] = source[lastOp.user]
          /\ shifts[x].ended

\* Two managers fill forms in up to the screenshots; the done button of the
\* screenshot editor is pressed with any form id.
NextOwn ==
    \/ \E m \in Managers : dm_start_shift_cb(m)
    \/ \E m \in Managers : dm_create_form_cb(m, MaxForms)
    \/ \E m \in Managers : dm_traffic_cb(m, "DIRECT")
    \/ \E m \in Managers : form_direct_forward(m)
    \/ \E m \in Managers : form_phone(m, "+380 991234567")
    \/ \E m \in Managers : dm_bank_pick_id_cb(m, Len(Banks))
    \/ \E m \in Managers : form_password(m)
    \/ \E m \in Managers : form_screenshot_add(m)
    \/ \E m \in Managers, f \in 1..(MaxForms + 1) : dm_edit_screens_done_cb(m, f)

SpecOwn == Init /\ [][NextOwn]_vars

\* C28: a step a manager takes on a form that is another manager's leaves
\* every field and the status of that form as they were.
C28_ForeignFormUntouched ==
    [][(lastOp'.user \in Managers /\ lastOp'.form \in FormIds
          /\ forms[lastOp'.form].manager_id # lastOp'.user) =>
         forms'[lastOp'.form] = forms[lastOp'.form]]_vars

\* B is blocked on a form that collides with the form A has submitted
C23_Witness ==
    /\ lastOp.op = "bank_pick"
    /\ lastOp.result = "duplicate"
    /\ lastOp.user = "m2"
    /\ \E g \in DuplicatesOf(forms[lastOp.form].phone, forms[lastOp.form].bank_name, lastOp.form) :
           forms[g].manager_id = "m1" /\ forms[g].status = "PENDING"
    /\ \E r \in reports : r.manager_id = "m2"

\* A form filled in along the straight path, with the edit menu of the
\* preview opened on the client type.
NextSkip ==
    \/ dm_start_shift_cb(Author)
    \/ dm_create_form_cb(Author, MaxForms)
    \/ dm_traffic_cb(Author, "DIRECT")
    \/ form_direct_forward(Author)
    \/ form_phone(Author, "+380 991234567")
    \/ dm_bank_pick_id_cb(Author, Len(Banks))
    \/ form_password(Author)
    \/ form_screenshot_add(Author)
    \/ dm_screens_done_cb(Author)
    \/ form_comment(Author)
    \/ form_confirm_cb(Author, "form_submit")
    \/ \E f \in 1..MaxForms : edit_open(Author, f)
    \/ \E f \in 1..MaxForms : dm_edit_field_cb(Author, f, "traffic_type")

SpecSkip == Init /\ [][NextSkip]_vars

\* C21: every form of a TG manager that is in progress or has just been
\* submitted has no traffic_type and no forwarded-contact payload.
C21_TgSkipsTraffic ==
    \A f \in FormIds :
        (source[forms[f].manager_id] = "TG" /\ forms[f].status \in {"IN_PROGRESS", "PENDING"}) =>
            /\ forms[f].traffic_type = ""
            /\ ~forms[f].direct_user
            /\ ~forms[f].referral_user

\* Leaving a form and coming back to it; one phone number is used.
NextResume ==
    \/ dm_start_shift_cb(Author)
    \/ dm_create_form_cb(Author, MaxForms)
    \/ \E c \in {"DIRECT", "REFERRAL"} : dm_traffic_cb(Author, c)
    \/ form_direct_forward(Author)
    \/ form_referral_forward_1(Author)
    \/ form_referral_forward_2(Author)
    \/ form_phone(Author, "+380 991234567")
    \/ \E b \in BankIds : dm_bank_pick_id_cb(Author, b)
    \/ form_password(Author)
    \/ form_screenshot_add(Author)
    \/ dm_screens_done_cb(Author)
    \/ form_comment(Author)
    \/ \E f \in 1..MaxForms : dm_my_form_open_cb(Author, f)
    \/ \E f \in 1..MaxForms : dm_my_form_resume_cb(Author, f)

SpecResume == Init /\ [][NextResume]_vars

\* C18: when the bank of the form declares a required number N > 0 of
\* screenshots for the manager's source, the wizard leaves the screenshots
\* step for the comment step only with exactly N items stored.
C18_ExactScreens ==
    [][\A m \in Managers :
         LET f == fsm[m].form_id IN
         (/\ fsm[m].state = "screenshots"
          /\ fsm'[m].state = "comment"
          /\ get_form(f)
          /\ required_screens(f) > 0) =>
             forms'[f].screenshots = required_screens(f)]_vars

\* C10: resuming an in-progress form lands on the first missing field in
\* the order traffic type, forwards, phone, bank, password, screenshots,
\* comment (a TG manager's form has no traffic type and no forwards to ask
\* for), and on the preview when nothing is missing.
C10_ResumeFirstMissing ==
    lastOp.op = "resume" =>
        LET form == forms[lastOp.form]
            tg == source[lastOp.user] = "TG"
        IN lastOp.result =
             IF ~tg /\ form.traffic_type = "" THEN "traffic_type"
             ELSE IF ~tg /\ form.traffic_type = "DIRECT" /\ ~form.direct_user THEN "direct_forward"
             ELSE IF ~tg /\ form.traffic_type = "REFERRAL" /\ ~form.direct_user THEN "referral_forward_1"
             ELSE IF ~tg /\ form.traffic_type = "REFERRAL" /\ ~form.referral_user THEN "referral_forward_2"
             ELSE IF form.phone = NoPhone THEN "phone"
             ELSE IF form.bank_name = NoBank THEN "bank_select"
             ELSE IF form.password = "" THEN "password"
             ELSE IF form.screenshots = 0 THEN "screenshots"
             ELSE IF form.comment = "" THEN "comment"
             ELSE "confirm"

\* Review: a form is filled in along the straight path, the team leads
\* decide, the manager sends a rejected form again.
NextReview ==
    \/ dm_start_shift_cb(Author)
    \/ dm_create_form_cb(Author, MaxForms)
    \/ dm_traffic_cb(Author, "DIRECT")
    \/ form_direct_forward(Author)
    \/ \E p \in Phones : form_phone(Author, p)
    \/ dm_bank_pick_id_cb(Author, Len(Banks))
    \/ form_password(Author)
    \/ form_screenshot_add(Author)
    \/ dm_screens_done_cb(Author)
    \/ form_comment(Author)
    \/ form_confirm_cb(Author, "form_submit")
    \/ \E f \in 1..MaxForms : edit_open(Author, f)
    \/ \E f \in 1..MaxForms : dm_edit_resubmit_cb(Author, f)
    \/ \E t \in TeamLeads, f \in 1..MaxForms : tl_live_open_cb(t, f)
    \/ \E t \in TeamLeads, f \in 1..MaxForms, a \in {"approve", "reject"} : review_form(t, f, a)
    \/ \E t \in TeamLeads : reject_comment(t)

SpecReview == Init /\ [][NextReview]_vars

\* C8: an approve or a reject applied to a form that is not Pending leaves
\* the form's status and rejection comment unchanged.
C8_DecisionOnlyOnPending ==
    [][(lastOp'.op \in {"approve", "reject"} /\ forms[lastOp'.form].status # "PENDING") =>
          /\ forms'[lastOp'.form].status = forms[lastOp'.form].status
          /\ forms'[lastOp'.form].team_lead_comment = forms[lastOp'.form].team_lead_comment]_vars

\* C14: a reject of a Pending form with a comment leaves the form Rejected
\* with the comment stored; a Rejected form stays Rejected until its owner
\* resubmits it, and the resubmit makes it Pending with no rejection comment.
Resubmits == {"edit_resubmit", "edit_choose_field", "my_form_send"}

C14_RejectedUntilResubmit ==
    [][\A f \in FormIds :
         /\ (lastOp'.op = "reject" /\ lastOp'.form = f /\ forms[f].status = "PENDING") =>
               forms'[f].status = "REJECTED" /\ forms'[f].team_lead_comment # ""
         /\ (forms[f].status = "REJECTED" /\ forms'[f].status # "REJECTED") =>
               /\ lastOp'.op \in Resubmits
               /\ lastOp'.user = forms[f].manager_id
               /\ lastOp'.form = f
               /\ forms'[f].status = "PENDING"
               /\ forms'[f].team_lead_comment = ""]_vars

\* Payment: forms are filled in along the straight path, one team lead
\* decides, the manager sends rejected forms again and records the payment
\* of approved ones.  The payment flow handles one form at a time, so the
\* behaviours go one form short of MaxForms.
Lead == "t1"

NextPay ==
    \/ dm_start_shift_cb(Author)
    \/ dm_create_form_cb(Author, MaxForms - 1)
    \/ \E c \in {"DIRECT", "REFERRAL"} : dm_traffic_cb(Author, c)
    \/ form_direct_forward(Author)
    \/ form_referral_forward_1(Author)
    \/ form_referral_forward_2(Author)
    \/ \E p \in Phones : form_phone(Author, p)
    \/ dm_bank_pick_id_cb(Author, Len(Banks))
    \/ form_password(Author)
    \/ form_screenshot_add(Author)
    \/ dm_screens_done_cb(Author)
    \/ form_comment(Author)
    \/ form_confirm_cb(Author, "form_submit")
    \/ \E f \in 1..MaxForms : edit_open(Author, f)
    \/ \E f \in 1..MaxForms : dm_edit_resubmit_cb(Author, f)
    \/ \E f \in 1..MaxForms : tl_live_open_cb(Lead, f)
    \/ \E f \in 1..MaxForms, a \in {"approve", "reject"} : review_form(Lead, f, a)
    \/ reject_comment(Lead)
    \/ \E f \in 1..MaxForms : dm_pay_card_start_cb(Author, f)
    \/ dm_pay_card_main_msg(Author)
    \/ dm_pay_amount_main_msg(Author)
    \/ dm_pay_add_card_cb(Author)
    \/ dm_pay_next_action_text(Author)
    \/ dm_pay_finish_cb(Author)
    \/ dm_pay_card_bonus_msg(Author)
    \/ dm_pay_amount_bonus_msg(Author)

SpecPay == Init /\ [][NextPay]_vars

\* C6: payment_done_at is written only on a form whose status is Approved
\* at the moment of the write.
C6_PaymentOnlyWhenApproved ==
    [][\A f \in FormIds :
          forms'[f].payment_done_at # forms[f].payment_done_at => forms[f].status = "APPROVED"]_vars

C19_ReferralBonusCaptured ==
    [][\A f \in FormIds :
         LET m == forms[f].manager_id IN
         (/\ forms[f].payment_done_at = 0
          /\ forms'[f].payment_done_at # 0
          /\ source[m] # "TG"
          /\ forms[f].traffic_type = "REFERRAL") =>
             /\ lastOp'.op = "pay_amount_bonus"
             /\ fsm[m].pay_phone_bonus]_vars

\* C20: for a TG manager the payment is finalized only by the explicit
\* finalize action and only when at least one (card, amount) pair has been
\* entered; a finalize with an empty list does not set payment_done_at and
\* leaves the payment flow open.
C20_ExplicitFinalize ==
    [][/\ \A f \in FormIds :
            (/\ forms'[f].payment_done_at # forms[f].payment_done_at
             /\ source[forms[f].manager_id] = "TG") =>
                /\ lastOp'.op \in {"pay_finish", "pay_final_text"}
                /\ lastOp'.user = forms[f].manager_id
                /\ fsm[forms[f].manager_id].pay_form_id = f
                /\ fsm[forms[f].manager_id].pay_items >= 1
       /\ (/\ lastOp'.op \in {"pay_finish", "pay_final_text"}
           /\ get_form(fsm[lastOp'.user].pay_form_id)
           /\ fsm[lastOp'.user].pay_items = 0) =>
              /\ forms' = forms
              /\ fsm'[lastOp'.user] = fsm[lastOp'.user]]_vars

\* a TG manager has pressed the final button before any card was entered
C20_Witness ==
    /\ lastOp.op = "pay_finish"
    /\ lastOp.result = "add_a_card"
    /\ source[lastOp.user] = "TG"
    /\ fsm[lastOp.user].pay_form_id = lastOp.form
    /\ fsm[lastOp.user].pay_items = 0
    /\ forms[lastOp.form].payment_done_at = 0

BankNew == <<"P", "a", "x">>

\* update_bank(name=...) (repositories.py:383-410): the row, then every form
\* and every duplicate report that carries the old name
update_bank_mut(b, name) ==
    /\ banks' = [banks EXCEPT ![b] = name]
    /\ forms' = [f \in FormIds |-> IF forms[f].bank_name = banks[b]
                                    THEN [forms[f] EXCEPT !.bank_name = name] ELSE forms[f]]
    /\ UNCHANGED reports

update_bank(b, name) ==
    /\ banks' = [banks EXCEPT ![b] = name]
    /\ forms' = [f \in FormIds |-> IF forms[f].bank_name = banks[b]
                                    THEN [forms[f] EXCEPT !.bank_name = name] ELSE forms[f]]
    /\ reports' = {IF r.bank_name = banks[b] THEN [r EXCEPT !.bank_name = name] ELSE r : r \in reports}

\* bank_rename_name (team_lead.py:985-1019); b is the bank whose rename
\* prompt the team lead has opened (key bank_id of the conversation)
bank_rename_name_mut(t, b, name) ==
    /\ is_team_lead(t)
    /\ b \in BankIds
    /\ IF get_bank_by_name(name) \notin {0, b}
       THEN /\ lastOp' = Op("bank_rename", t, 0, "exists")
            /\ UNCHANGED <<banks, forms, reports>>
       ELSE IF name = banks[b]
       THEN /\ lastOp' = Op("bank_rename", t, 0, "same")
            /\ UNCHANGED <<banks, forms, reports>>
       ELSE /\ banks' = [banks EXCEPT ![b] = name]
            /\ UNCHANGED forms
            /\ reports' = {r \in reports : r.bank_name # banks[b]}
            /\ lastOp' = Op("bank_rename", t, 0, "renamed")
    /\ UNCHANGED <<role, source, manager_tag, forward_group_id, access_requests, album, shifts, fsm,
                   chat, poolVars, clock>>

bank_rename_name(t, b, name) ==
    /\ is_team_lead(t)
    /\ b \in BankIds
    /\ IF get_bank_by_name(name) \notin {0, b}
       THEN /\ lastOp' = Op("bank_rename", t, 0, "exists")
            /\ UNCHANGED <<banks, forms, reports>>
       ELSE IF name = banks[b]
       THEN /\ lastOp' = Op("bank_rename", t, 0, "same")
            /\ UNCHANGED <<banks, forms, reports>>
       ELSE /\ update_bank(b, name)
            /\ lastOp' = Op("bank_rename", t, 0, "renamed")
    /\ UNCHANGED <<role, source, manager_tag, forward_group_id, access_requests, album, shifts, fsm,
                   chat, poolVars, clock>>

\* Forms get a phone and a bank, colliding picks are reported, and the team
\* lead renames banks.
NextBank ==
    \/ dm_start_shift_cb(Author)
    \/ dm_create_form_cb(Author, MaxForms)
    \/ dm_traffic_cb(Author, "DIRECT")
    \/ form_direct_forward(Author)
    \/ form_phone(Author, "+380 991234567")
    \/ \E b \in BankIds : dm_bank_pick_id_cb(Author, b)
    \/ \E b \in BankIds, name \in {BankNew, BankAl} : bank_rename_name(Lead, b, name)

SpecBank == Init /\ [][NextBank]_vars

C34_RenameCascades ==
    [][\A b \in BankIds :
         banks'[b] # banks[b] =>
            /\ \A f \in FormIds : forms'[f].bank_name # banks[b]
            /\ \A r \in reports' : r.bank_name # banks[b]]_vars

\* a bank was renamed while a form and a report carried its name
C34_Witness ==
    /\ lastOp.op = "bank_rename"
    /\ lastOp.result = "renamed"
    /\ \E f \in FormIds : forms[f].bank_name = BankNew
    /\ \E r \in reports : r.bank_name = BankNew /\ r.manager_id = Author


\* ===================================================== access requests
\* upsert_access_request (repositories.py:132-149): the table after the call
upsert_access_request_mut(u) ==
    Append(access_requests, [user_id |-> u, status |-> "PENDING"])

upsert_access_request(u) ==
    IF \A i \in DOMAIN access_requests : access_requests[i].user_id # u
    THEN Append(access_requests, [user_id |-> u, status |-> "PENDING"])
    ELSE [i \in DOMAIN access_requests |->
            IF access_requests[i].user_id = u /\ access_requests[i].status # "PENDING"
            THEN [access_requests[i] EXCEPT !.status = "PENDING"]
            ELSE access_requests[i]]

\* _render_start (common.py:39-130), reached from /start and from the texts
\* of the start and request-access buttons: a team lead, a manager and a
\* provider get their menu, anyone else is set to PENDING and asks for access;
\* the developers are told when the request is new or re-opened
render_start(u) ==
    /\ IF role[u] \in {"TEAM_LEAD", "DROP_MANAGER", "WICTORY"}
       THEN /\ lastOp' = Op("start", u, 0, "menu")
            /\ UNCHANGED <<role, access_requests>>
       ELSE /\ role' = [role EXCEPT ![u] = "PENDING"]
            /\ access_requests' = upsert_access_request(u)
            /\ lastOp' = Op("start", u, 0,
                            IF access_requests' # access_requests THEN "notified" ELSE "waiting")
    /\ UNCHANGED <<source, manager_tag, forward_group_id, banks, album, shifts, forms, reports, fsm,
                   chat, poolVars, clock>>

\* dev_access_request_decision (developer.py:1380-1438) with
\* set_access_request_status (repositories.py:167-182): the developer approves
\* or rejects the request of a user of the users table; the role is picked
\* in a later step
dev_access_request_decision(u, action) ==
    /\ action \in {"approve", "reject"}
    /\ \/ role[u] # "PENDING"
       \/ \E i \in DOMAIN access_requests : access_requests[i].user_id = u
    /\ LET status == IF action = "approve" THEN "APPROVED" ELSE "REJECTED"
           req == IF \A i \in DOMAIN access_requests : access_requests[i].user_id # u
                  THEN Append(access_requests, [user_id |-> u, status |-> status])
                  ELSE access_requests
           one == CHOOSE i \in DOMAIN req : req[i].user_id = u
       IN access_requests' = [req EXCEPT ![one].status = status]
    /\ lastOp' = Op("decision", u, 0, action)
    /\ UNCHANGED <<role, source, manager_tag, forward_group_id, banks, album, shifts, forms,
                   reports, fsm, chat, poolVars, clock>>

\* Users ask for access and the developer decides and gives roles.
NextAccess ==
    \/ \E u \in Managers \cup {Lead} : render_start(u)
    \/ \E u \in Managers \cup {Lead}, action \in {"approve", "reject"} : dev_access_request_decision(u, action)
    \/ \E u \in Managers, r \in {"PENDING", "DROP_MANAGER"} : dev_set_user_role_cb(u, r)

SpecAccess == Init /\ [][NextAccess]_vars

\* C32: no two rows of the access requests belong to one user; a user who
\* asks again after the request was approved or rejected gets that same row
\* back to PENDING and no new row, and asking again while the row is PENDING
\* leaves the table as it is.
C32_OneRequestPerUser ==
    /\ [](\A i, j \in DOMAIN access_requests :
            access_requests[i].user_id = access_requests[j].user_id => i = j)
    /\ [][\A u \in Users, k \in DOMAIN access_requests :
            (lastOp'.op = "start" /\ lastOp'.user = u /\ lastOp'.result # "menu"
             /\ access_requests[k].user_id = u) =>
                /\ Len(access_requests') = Len(access_requests)
                /\ access_requests'[k] = [user_id |-> u, status |-> "PENDING"]
                /\ \A i \in DOMAIN access_requests : i # k => access_requests'[i] = access_requests[i]
                /\ access_requests[k].status = "PENDING" => access_requests' = access_requests]_vars

\* a user whose request had been processed has asked again and is back in
\* the queue: the developers were told, and the row is not the newest one
C32_Witness ==
    /\ lastOp.op = "start"
    /\ lastOp.result = "notified"
    /\ \E i \in 1..(Len(access_requests) - 1) :
          access_requests[i] = [user_id |-> lastOp.user, status |-> "PENDING"]
    /\ role[lastOp.user] = "PENDING"


\* ===================================================== albums of photos
\* _schedule_album_ack (drop_manager.py:478-512) for the chat whose album
\* state is a: nothing within two seconds of the last acknowledgement of the
\* group, otherwise the task the dict holds is cancelled unless it is done,
\* and a new task takes its place; a task is known by the total it will report
schedule_album_ack(a, g, total) ==
    IF g \in a.recent
    THEN a
    ELSE [a EXCEPT !.tasks = (@ \ {[group |-> g, total |-> a.ack[g]]}) \cup {[group |-> g, total |-> total]},
                   !.ack[g] = total]

\* form_screenshot_add (drop_manager.py:3266-3350) for a photo of the album g,
\* up to its first wait on the database: get_data, the append and
\* update_data run without a pause (the storage is MemoryStorage,
\* app.py:216), then the acknowledgement is scheduled or the handler goes on
\* to get_form with the list it holds; lim bounds the photos of a behaviour
form_screenshot_add_album_mut(m, g, lim) ==
    LET f == fsm[m].form_id
        n == fsm[m].collected
        a == [album[m] EXCEPT !.counts[g] = @ + 1]
        held == [a EXCEPT !.saving = @ \cup {[form |-> f, collected |-> n]}]
    IN
    /\ fsm[m].state = "screenshots"
    /\ album[m].counts[g] < MaxAlbum
    /\ fsm[m].collected < lim
    /\ f # 0
    /\ fsm' = [fsm EXCEPT ![m].collected = n]
    /\ album' = [album EXCEPT ![m] =
                    IF fsm[m].expected > 0
                    THEN IF n < fsm[m].expected THEN schedule_album_ack(a, g, n) ELSE held
                    ELSE IF n >= ScreenCap THEN schedule_album_ack(held, g, n)
                         ELSE schedule_album_ack(a, g, n)]
    /\ lastOp' = Op("photo", m, f, g)
    /\ UNCHANGED <<role, source, manager_tag, forward_group_id, banks, access_requests, shifts, forms,
                   reports, chat, poolVars, clock>>

form_screenshot_add_album(m, g, lim) ==
    LET f == fsm[m].form_id
        n == IF fsm[m].collected < ScreenCap THEN fsm[m].collected + 1 ELSE fsm[m].collected
        a == [album[m] EXCEPT !.counts[g] = @ + 1]
        held == [a EXCEPT !.saving = @ \cup {[form |-> f, collected |-> n]}]
    IN
    /\ fsm[m].state = "screenshots"
    /\ album[m].counts[g] < MaxAlbum
    /\ fsm[m].collected < lim
    /\ f # 0
    /\ fsm' = [fsm EXCEPT ![m].collected = n]
    /\ album' = [album EXCEPT ![m] =
                    IF fsm[m].expected > 0
                    THEN IF n < fsm[m].expected THEN schedule_album_ack(a, g, n) ELSE held
                    ELSE IF n >= ScreenCap THEN schedule_album_ack(held, g, n)
                         ELSE schedule_album_ack(a, g, n)]
    /\ lastOp' = Op("photo", m, f, g)
    /\ UNCHANGED <<role, source, manager_tag, forward_group_id, banks, access_requests, shifts, forms,
                   reports, chat, poolVars, clock>>

\* form_screenshot_add after get_form (drop_manager.py:3300-3312, 3329-3341):
\* the handler stores the list it holds and moves the conversation on
form_screenshot_add_save(m, c) ==
    /\ c \in album[m].saving
    /\ album' = [album EXCEPT ![m].saving = @ \ {c}]
    /\ IF get_form(c.form)
       THEN /\ forms' = [forms EXCEPT ![c.form].screenshots = c.collected]
            /\ fsm' = [fsm EXCEPT ![m].state = "comment"]
       ELSE /\ fsm' = [fsm EXCEPT ![m] = EmptyFsm]
            /\ UNCHANGED forms
    /\ lastOp' = Op("photo_saved", m, c.form, "")
    /\ UNCHANGED <<role, source, manager_tag, forward_group_id, banks, access_requests, shifts,
                   reports, chat, poolVars, clock>>

\* _runner of _schedule_album_ack (drop_manager.py:496-510) once its sleep
\* is over: the count of the group is taken, the time is noted and the
\* acknowledgement is sent
album_ack_runner(m, t) ==
    /\ t \in album[m].tasks
    /\ album' = [album EXCEPT ![m].tasks = @ \ {t}, ![m].counts[t.group] = 0,
                              ![m].recent = @ \cup {t.group}]
    /\ lastOp' = Op("album_ack", m, 0, t.group)
    /\ UNCHANGED <<role, source, manager_tag, forward_group_id, banks, access_requests, shifts, forms,
                   reports, fsm, chat, poolVars, clock>>

\* two seconds have passed since the acknowledgement of group g
\* (drop_manager.py:489-491)
album_window_over(m, g) ==
    /\ g \in album[m].recent
    /\ album' = [album EXCEPT ![m].recent = @ \ {g}]
    /\ lastOp' = Step
    /\ UNCHANGED <<role, source, manager_tag, forward_group_id, banks, access_requests, shifts, forms,
                   reports, fsm, chat, poolVars, clock>>

\* A manager reaches the screenshots step and sends albums; the handlers of
\* the photos run as tasks of their own.
NextAlbum ==
    \/ dm_start_shift_cb(Author)
    \/ dm_create_form_cb(Author, 1)
    \/ dm_traffic_cb(Author, "DIRECT")
    \/ form_direct_forward(Author)
    \/ form_phone(Author, "+380 991234567")
    \/ \E b \in BankIds : dm_bank_pick_id_cb(Author, b)
    \/ form_password(Author)
    \/ \E g \in Groups : form_screenshot_add_album(Author, g, MaxAlbum + 1)
    \/ \E c \in [form : 1..MaxForms, collected : 1..ScreenCap] : form_screenshot_add_save(Author, c)
    \/ \E t \in [group : Groups, total : 1..ScreenCap] : album_ack_runner(Author, t)
    \/ \E g \in Groups : album_window_over(Author, g)

SpecAlbum == Init /\ [][NextAlbum]_vars

\* One form and one album after another, up to the cap of the list and past
\* it.
NextCap ==
    \/ dm_start_shift_cb(Author)
    \/ dm_create_form_cb(Author, 1)
    \/ dm_traffic_cb(Author, "DIRECT")
    \/ form_direct_forward(Author)
    \/ form_phone(Author, "+380 991234567")
    \/ \E b \in BankIds : dm_bank_pick_id_cb(Author, b)
    \/ form_password(Author)
    \/ form_screenshot_add_album(Author, "g1", ScreenCap + 1)
    \/ \E c \in [form : 1..MaxForms, collected : 1..ScreenCap] : form_screenshot_add_save(Author, c)
    \/ \E t \in [group : Groups, total : 1..ScreenCap] : album_ack_runner(Author, t)
    \/ album_window_over(Author, "g1")

SpecCap == Init /\ [][NextCap]_vars

\* C33: a chat has at most one pending acknowledgement timer per media
\* group, and after every photo of a group the pending timer of the group is
\* the one scheduled for that photo.
C33_OneTimerPerGroup ==
    /\ [](\A m \in Managers, g \in Groups :
            Cardinality({t \in album[m].tasks : t.group = g}) <= 1)
    /\ [][\A m \in Managers, g \in Groups :
            (lastOp'.op = "photo" /\ lastOp'.user = m /\ lastOp'.result = g) =>
                {t \in album'[m].tasks : t.group = g} = {[group |-> g, total |-> fsm'[m].collected]}]_vars

\* C40: every photo accepted in the screenshots step makes the collected
\* list one item longer until it holds ScreenCap items, also while handlers
\* of earlier photos are still waiting to store their list; storing a list
\* and sending an acknowledgement leave the collected list as it is.
C40_EveryPhotoKept ==
    [][\A m \in Managers :
         /\ lastOp'.op = "photo" /\ lastOp'.user = m =>
                fsm'[m].collected = IF fsm[m].collected < ScreenCap THEN fsm[m].collected + 1
                                    ELSE ScreenCap
         /\ (lastOp'.op \in {"photo_saved", "album_ack"} /\ fsm'[m].state # "none") =>
                fsm'[m].collected = fsm[m].collected]_vars

\* the list is full, and a further photo of the album has arrived while the
\* handler of an earlier photo is still waiting to store its list
C40_Witness ==
    /\ lastOp.op = "photo"
    /\ fsm[lastOp.user].collected = ScreenCap
    /\ album[lastOp.user].counts["g1"] > 1
    /\ album[lastOp.user].saving # {}

C36_AssignedHasAssignee ==
    \A i \in 1..NItems : pool[i].status = "assigned" => pool[i].assigned_to \in Managers

\* an item that both managers have been issued is Assigned to the manager
\* whose assignment was written last
C36_Witness ==
    \E i \in 1..NItems :
        /\ pool[i].status = "assigned"
        /\ pool[i].assigned_to = "m2"
        /\ granted[i] = Managers
        /\ lastOp.op = "take"

\* C37: no action moves a form whose payment has been recorded
\* (payment_done_at is set) out of status Approved.
C37_PaidStaysApproved ==
    [][\A f \in FormIds :
         (forms[f].payment_done_at # 0 /\ forms[f].status = "APPROVED") =>
             forms'[f].status = "APPROVED"]_vars

\* C38: an item is marked used only with an existing Approved form of the
\* manager who holds the item, and while the item is Used that form exists
\* and is Approved.
C38_UsedWithApprovedForm ==
    /\ [](\A i \in 1..NItems :
            pool[i].status = "used" =>
                /\ get_form(pool[i].used_with_form_id)
                /\ forms[pool[i].used_with_form_id].status = "APPROVED")
    /\ [][\A i \in 1..NItems :
            (pool[i].status # "used" /\ pool'[i].status = "used") =>
                /\ get_form(pool'[i].used_with_form_id)
                /\ forms[pool'[i].used_with_form_id].status = "APPROVED"
                /\ forms[pool'[i].used_with_form_id].manager_id = pool[i].assigned_to]_vars

\* ===================================================== closing a shift twice
\* dm_shift_comment_skip (drop_manager.py:2155-2172) and
\* dm_shift_comment_message (2249-2268) up to the read of the shift, run as
\* a task of its own (start_polling handles every update as a task and the
\* dispatcher has no events isolation, app.py:216, 259): the handler has
\* read the open shift in its session and the dialogs count of the
\* conversation, and goes on to _finalize_shift_with_comment
dm_shift_comment_task(m, kind, s) ==
    LET open == s \in 1..Len(shifts) /\ shifts[s].manager_id = m /\ ~shifts[s].ended
        n == CHOOSE k \in 1..MaxClosers : \A c \in album[m].closing : c.n # k
    IN
    /\ role[m] = "DROP_MANAGER"
    /\ Cardinality(album[m].closing) < MaxClosers
    /\ \/ kind = "skip" /\ SkipButton(s) \in chat[m]
       \/ kind = "comment" /\ fsm[m].state = "comment_of_day" /\ s = get_active_shift(m)
    /\ IF open
       THEN /\ album' = [album EXCEPT ![m].closing =
                            @ \cup {[kind |-> kind, shift |-> s, n |-> n,
                                     dialogs_count |-> fsm[m].dialogs_count]}]
            /\ lastOp' = Step
            /\ UNCHANGED fsm
       ELSE /\ lastOp' = Op(IF kind = "skip" THEN "shift_skip" ELSE "shift_comment", m, 0,
                            IF kind = "skip" THEN "not_found" ELSE "no_shift")
            /\ fsm' = [fsm EXCEPT ![m] = IF kind = "skip" THEN @ ELSE EmptyFsm]
            /\ UNCHANGED album
    /\ UNCHANGED <<role, source, manager_tag, forward_group_id, banks, access_requests, shifts, forms,
                   reports, chat, poolVars, clock>>

\* the rest of the two handlers (drop_manager.py:2174-2195, 2270-2285) with
\* _finalize_shift_with_comment (2076-2152): ended_at, the comment and the
\* dialogs count are set on the row the handler holds and committed, the
\* report is sent, the conversation is cleared
finalize_shift_task(m, c) ==
    /\ c \in album[m].closing
    /\ album' = [album EXCEPT ![m].closing = @ \ {c}]
    /\ shifts' = [shifts EXCEPT ![c.shift].ended = TRUE, ![c.shift].dialogs_count = c.dialogs_count]
    /\ chat' = [chat EXCEPT ![m] = @ \ {SkipButton(x) : x \in 1..MaxShifts}]
    /\ fsm' = [fsm EXCEPT ![m] = EmptyFsm]
    /\ lastOp' = Op(IF c.kind = "skip" THEN "shift_skip" ELSE "shift_comment", m, 0,
                    IF maybe_send_team_total_report(m, c.shift) THEN "closed_team_report" ELSE "closed")
    /\ UNCHANGED <<role, source, manager_tag, forward_group_id, banks, access_requests, forms,
                   reports, poolVars, clock>>

\* A manager opens shifts and closes them; the closing updates are handled
\* as tasks that may overlap.
NextClose ==
    \/ dm_start_shift_cb(Author)
    \/ \E s \in 1..MaxShifts : end_work_confirm(Author, s)
    \/ \E text \in CountTexts : dm_shift_dialogs_count_message(Author, text)
    \/ \E kind \in {"skip", "comment"}, s \in 1..MaxShifts : dm_shift_comment_task(Author, kind, s)
    \/ \E c \in [kind : {"skip", "comment"}, shift : 1..MaxShifts, n : 1..MaxClosers,
                  dialogs_count : {NoCount} \cup {int(NoSpaces(t)) : t \in {x \in CountTexts : isdigit(NoSpaces(x))}}] :
          finalize_shift_task(Author, c)

SpecClose == Init /\ [][NextClose]_vars

\* C39: every closing of a shift (a report sent on the comment of the day or
\* on its skip button) ends a shift of the manager that was open until then:
\* a shift that has ended is not ended again and gets no second report.
C39_ClosedOnce ==
    [][(/\ lastOp'.op \in {"shift_skip", "shift_comment"}
        /\ lastOp'.result \in {"closed", "closed_team_report"}) =>
           \E s \in 1..Len(shifts) :
               /\ shifts[s].manager_id = lastOp'.user
               /\ ~shifts[s].ended
               /\ shifts'[s].ended]_vars

====
